---- MODULE Spec2Model ----
(***************************************************************************)
(* Architecture Center YAML criteria scanner.                              *)
(*                                                                         *)
(* Model of scripts/scan_architecture_center_yml.py (the scan loop and the *)
(* pure helpers it calls, the files main() writes), of                     *)
(* scripts/build_scan_results_xlsx.py (pick_estimate_link, the rows of the *)
(* sheet) and of scripts/run_compare_only.py (the comparison status).      *)
(*                                                                         *)
(* Python strings are sequences of one-character strings, so that the      *)
(* regular expressions and the str methods of the source are modelled      *)
(* character by character.  None is the empty sequence where the source    *)
(* only tests truthiness or the value can never be the empty string.       *)
(***************************************************************************)
EXTENDS Integers, Sequences, FiniteSets, TLC

VARIABLES
    pc,         \* where the program is: "scan", "done", "aborted" in scan(), then
                \* "written", "built", "compared" or "compare_raised" as the
                \* scripts after it end; or the pure function applied
                \* ("resolve", "links", "images")
    corpus,     \* what load_yaml returns for each enumerated YAML file
    disk,       \* the files below repo_root other than the YAML files
    debug,      \* args.debug
    yml_files,  \* scan(): the sorted, de-duplicated list of YAML paths
    pos,        \* scan(): number of loop iterations completed
    results,    \* scan(): results
    counts,     \* scan(): counts
    failures,   \* scan(): failures
    scan_results_json,  \* the file main() writes to args.output
    scan_debug_json,    \* the file scan-debug.json
    scan_results_xlsx,  \* the first sheet of the workbook scan-results.xlsx
    est_df,             \* run_compare_only.py: the frame read from estimate_scenarios.xlsx
    fn_arg,     \* argument of the pure function applied
    fn_ret      \* its result, once applied

vars == <<pc, corpus, disk, debug, yml_files, pos, results, counts, failures,
         scan_results_json, scan_debug_json, scan_results_xlsx, est_df, fn_arg, fn_ret>>
outVars == <<scan_results_json, scan_debug_json, scan_results_xlsx, est_df>>
scanVars == <<corpus, disk, debug, yml_files, pos, results, counts, failures, outVars>>

(***************************************************************************)
(* Bounds of the model.                                                    *)
(***************************************************************************)
MaxRefPieces == 3
MaxDepth == 2
MaxLinkPieces == 3
MaxImagePieces == 3
MaxFiles == 2
MaxFailures == 1001

(***************************************************************************)
(* Python str: code points, case, character classes.                       *)
(***************************************************************************)
\* the characters with code points 32..95 and 97..126
AsciiLow == <<" ","!","\"","#","$","%","&","'","(",")","*","+",",","-",".","/","0","1","2","3","4","5","6","7","8","9",":",";","<","=",">","?","@","A","B","C","D","E","F","G","H","I","J","K","L","M","N","O","P","Q","R","S","T","U","V","W","X","Y","Z","[","\\","]","^","_">>
AsciiHigh == <<"a","b","c","d","e","f","g","h","i","j","k","l","m","n","o","p","q","r","s","t","u","v","w","x","y","z","{","|","}","~">>

CharSet == {AsciiLow[i] : i \in 1..64} \cup {AsciiHigh[i] : i \in 1..30} \cup {"\n", "\t"}

\* ord(c)
Code == [c \in CharSet |->
            IF c = "\n" THEN 10
            ELSE IF c = "\t" THEN 9
            ELSE IF \E i \in 1..64 : AsciiLow[i] = c
                 THEN 31 + (CHOOSE i \in 1..64 : AsciiLow[i] = c)
                 ELSE 96 + (CHOOSE i \in 1..30 : AsciiHigh[i] = c)]

\* the lower-case letter of each upper-case letter
ToLower == [A |-> "a", B |-> "b", C |-> "c", D |-> "d", E |-> "e", F |-> "f", G |-> "g",
            H |-> "h", I |-> "i", J |-> "j", K |-> "k", L |-> "l", M |-> "m", N |-> "n",
            O |-> "o", P |-> "p", Q |-> "q", R |-> "r", S |-> "s", T |-> "t", U |-> "u",
            V |-> "v", W |-> "w", X |-> "x", Y |-> "y", Z |-> "z"]

\* c.lower() for one character
LowerChar == [c \in CharSet |-> IF c \in DOMAIN ToLower THEN ToLower[c] ELSE c]

\* s.lower()
Lower(s) == [k \in 1..Len(s) |-> LowerChar[s[k]]]

\* \s
IsSpace(c) == c \in {" ", "\t", "\n"}

\* [a-zA-Z]
IsAlpha(c) == LowerChar[c] \in {ToLower[u] : u \in DOMAIN ToLower}

\* \w
IsWord(c) == IsAlpha(c) \/ c \in {"0", "1", "2", "3", "4", "5", "6", "7", "8", "9", "_"}

\* s[i-1:] in Python terms: the suffix of s that starts at position i
From(s, i) == SubSeq(s, i, Len(s))

\* the literal lit occurs in s at position i, compared exactly
MatchAt(s, i, lit) ==
    /\ i >= 1
    /\ i + Len(lit) - 1 <= Len(s)
    /\ \A k \in 1..Len(lit) : s[i + k - 1] = lit[k]

\* the literal lit occurs in s at position i, compared case-insensitively (re.IGNORECASE)
MatchAtCI(s, i, lit) ==
    LET Folded(fold) == /\ i >= 1
                        /\ i + Len(lit) - 1 <= Len(s)
                        /\ \A k \in 1..Len(lit) : fold[s[i + k - 1]] = fold[lit[k]]
    IN Folded(LowerChar)

\* lit in s
Contains(s, lit) == \E i \in 1..Len(s) : MatchAt(s, i, lit)

\* re.search(lit, s, re.IGNORECASE) for a literal pattern
ContainsCI(s, lit) == \E i \in 1..Len(s) : MatchAtCI(s, i, lit)

\* min(S), max(S) for a non-empty set of integers
Min(S) == CHOOSE k \in S : \A j \in S : k <= j
Max(S) == CHOOSE k \in S : \A j \in S : k >= j

\* s.lstrip(chars)
LStripChars(s, cs) ==
    LET FromFirst(keep) == IF keep = {} THEN <<>> ELSE From(s, Min(keep))
    IN FromFirst({k \in 1..Len(s) : s[k] \notin cs})

\* s.rstrip(chars)
RStripChars(s, cs) ==
    LET ToLast(keep) == IF keep = {} THEN <<>> ELSE SubSeq(s, 1, Max(keep))
    IN ToLast({k \in 1..Len(s) : s[k] \notin cs})

\* $ at position k: the end of the string, or just before a final newline
AtEnd(s, k) == k = Len(s) + 1 \/ (k = Len(s) /\ s[k] = "\n")

\* s.strip(chars)
StripChars(s, cs) == RStripChars(LStripChars(s, cs), cs)

\* s.strip()
Strip(s) == StripChars(s, {" ", "\t", "\n"})

\* Python's order on str: lexicographic by code point, a proper prefix first
StrLess(a, b) ==
    LET AtFirst(d, ord) == ord[a[d]] < ord[b[d]]
        Decide(diff) == IF diff = {} THEN Len(a) < Len(b) ELSE AtFirst(Min(diff), Code)
    IN Decide({k \in 1..Min({Len(a), Len(b)}) : a[k] /= b[k]})

\* sorted(S) for a set S of strings
RECURSIVE SortedSet(_)
SortedSet(S) ==
    LET Rest(m) == <<m>> \o SortedSet(S \ {m})
    IN IF S = {} THEN <<>>
       ELSE Rest(CHOOSE x \in S : \A y \in S \ {x} : StrLess(x, y))

\* set(seq)
ToSet(seq) == {seq[k] : k \in 1..Len(seq)}

RECURSIVE Concat(_)
\* "".join(pieces)
Concat(pieces) == IF Len(pieces) = 0 THEN <<>> ELSE Head(pieces) \o Concat(Tail(pieces))

(***************************************************************************)
(* Reference Resolver: clean_ref and resolve_repo_rel.                     *)
(***************************************************************************)
\* None
Absent == <<>>

\* repo_root = Path.cwd(), as the list of its path segments below "/"
RepoRoot == <<<<"w","o","r","k">>,<<"r","e","p","o">>>>

\* clean_ref(ref)
clean_ref(ref) ==
    StripChars(Strip(StripChars(StripChars(Strip(ref), {"\""}), {"'"})),
               {"(", ")", "<", ">", "[", "]"})

\* re.match(r"^[a-zA-Z]+://", ref)
HasScheme(ref) ==
    \E n \in 1..Len(ref) :
        /\ \A k \in 1..n : IsAlpha(ref[k])
        /\ MatchAt(ref, n + 1, <<":","/","/">>)

RECURSIVE StripDotSlash(_)
\* while ref.startswith('./'): ref = ref[2:]
StripDotSlash(ref) ==
    IF MatchAt(ref, 1, <<".","/">>) THEN StripDotSlash(From(ref, 3)) ELSE ref

RECURSIVE SplitOn(_, _)
\* s.split(sep) for a one-character separator
SplitOn(s, sep) ==
    LET Cut(first) == <<SubSeq(s, 1, first - 1)>> \o SplitOn(From(s, first + 1), sep)
        Split(at) == IF at = {} THEN <<s>> ELSE Cut(Min(at))
    IN Split({i \in 1..Len(s) : s[i] = sep})

\* pathlib's parsing of a relative path string: empty and "." segments are dropped
PathSegments(s) ==
    SelectSeq(SplitOn(s, "/"), LAMBDA seg : seg /= <<>> /\ seg /= <<".">>)

RECURSIVE ResolveDots(_, _)
\* Path.resolve() on an absolute path without symbolic links: ".." removes the
\* segment before it and is dropped at the filesystem root
ResolveDots(done, rest) ==
    IF Len(rest) = 0 THEN done
    ELSE IF Head(rest) = <<".",".">>
         THEN ResolveDots(IF Len(done) = 0 THEN done ELSE SubSeq(done, 1, Len(done) - 1), Tail(rest))
         ELSE ResolveDots(Append(done, Head(rest)), Tail(rest))

\* p.relative_to(root) succeeds
IsUnder(p, root) == Len(p) >= Len(root) /\ SubSeq(p, 1, Len(root)) = root

RECURSIVE JoinSlash(_)
JoinSlash(segs) ==
    IF Len(segs) = 0 THEN <<>>
    ELSE IF Len(segs) = 1 THEN segs[1]
    ELSE segs[1] \o <<"/">> \o JoinSlash(Tail(segs))

\* PurePath.as_posix() of a relative path
as_posix(segs) == IF Len(segs) = 0 THEN <<".">> ELSE JoinSlash(segs)

\* resolve_repo_rel(base_dir, ref, repo_root); base_dir and repo_root are absolute
\* paths given as segment lists, the result is a string or Absent
resolve_repo_rel_NoGuard(base_dir, ref0, repo_root) ==
    LET RelativeTo(p, root) == IF IsUnder(p, root)
                               THEN as_posix(SubSeq(p, Len(root) + 1, Len(p)))
                               ELSE <<"/">> \o JoinSlash(p)
        Resolve(ref) ==
            IF HasScheme(ref) THEN Absent
            ELSE RelativeTo(ResolveDots(<<>>, base_dir \o PathSegments(LStripChars(StripDotSlash(ref), {"/"}))),
                            ResolveDots(<<>>, repo_root))
    IN Resolve(clean_ref(ref0))

resolve_repo_rel(base_dir, ref0, repo_root) ==
    LET RelativeTo(p, root) == IF IsUnder(p, root)
                               THEN as_posix(SubSeq(p, Len(root) + 1, Len(p)))
                               ELSE Absent
        Resolve(ref) ==
            IF HasScheme(ref) THEN Absent
            ELSE RelativeTo(ResolveDots(<<>>, base_dir \o PathSegments(LStripChars(StripDotSlash(ref), {"/"}))),
                            ResolveDots(<<>>, repo_root))
    IN Resolve(clean_ref(ref0))

(***************************************************************************)
(* Link Classifier: the URL patterns and categorize_links.                 *)
(***************************************************************************)
\* the characters excluded by [^\s\)\]\\\"'] in AZURE_E_RE, CALC_ANY_RE and IMAGE_PATH_RE
UrlStop == {" ", "\t", "\n", ")", "]", "\\", "\"", "'"}

\* the first position at or after i whose character is in stop (Len(s) + 1 if none)
RunEnd(s, i, stop) ==
    LET First(at) == IF at = {} THEN (IF i > Len(s) THEN i ELSE Len(s) + 1) ELSE Min(at)
    IN First({k \in i..Len(s) : s[k] \in stop})

\* \s* matched at position i: the first position at or after i that holds no
\* whitespace (Len(s) + 1 if none)
SkipSpaces(s, i) ==
    LET First(at) == IF at = {} THEN (IF i > Len(s) THEN i ELSE Len(s) + 1) ELSE Min(at)
    IN First({k \in i..Len(s) : ~IsSpace(s[k])})

\* https?:// matched at position i: the position after it, or 0
HttpEnd(s, i) ==
    IF MatchAtCI(s, i, <<"h","t","t","p","s",":","/","/">>) THEN i + 8
    ELSE IF MatchAtCI(s, i, <<"h","t","t","p",":","/","/">>) THEN i + 7
    ELSE 0

\* AZURE_E_RE matched at position i: the position after the match, or 0
AzureEEnd(s, i) ==
    LET NonEmpty(from, end) == IF end > from THEN end ELSE 0
        After(j) == IF j > 0 /\ MatchAtCI(s, j, <<"a","z","u","r","e",".","c","o","m","/","e","/">>)
                    THEN NonEmpty(j + 12, RunEnd(s, j + 12, UrlStop))
                    ELSE 0
    IN After(HttpEnd(s, i))

\* (?:[a-z]{2}-[a-z]{2}/) matched at position k
IsLocaleSeg(s, k) ==
    /\ k + 5 <= Len(s)
    /\ IsAlpha(s[k]) /\ IsAlpha(s[k + 1]) /\ s[k + 2] = "-"
    /\ IsAlpha(s[k + 3]) /\ IsAlpha(s[k + 4]) /\ s[k + 5] = "/"

\* https?://azure\.microsoft\.com/{LOCALE_SEG}pricing/calculator matched at
\* position i: the position after it, or 0 (where the optional locale segment
\* matches, "pricing/calculator" cannot match in its place)
CalcPrefixEnd(s, i) ==
    LET Path(k) == IF MatchAtCI(s, k, <<"p","r","i","c","i","n","g","/","c","a","l","c","u","l","a","t","o","r">>) THEN k + 18 ELSE 0
        After(j) == IF j = 0 \/ ~MatchAtCI(s, j, <<"a","z","u","r","e",".","m","i","c","r","o","s","o","f","t",".","c","o","m","/">>) THEN 0
                    ELSE Path(IF IsLocaleSeg(s, j + 20) THEN j + 26 ELSE j + 20)
    IN After(HttpEnd(s, i))

\* CALC_ANY_RE matched at position i: the position after the match, or 0
CalcAnyEnd(s, i) ==
    LET Rest(e) == IF e = 0 THEN 0 ELSE RunEnd(s, e, UrlStop)
    IN Rest(CalcPrefixEnd(s, i))

\* (?=$|[\s\)\]\\\"']) at position k
RootLookahead(s, k) == k > Len(s) \/ s[k] \in UrlStop

\* CALC_ROOT_RE.match(s)
CalcRootMatch(s) ==
    LET Rest(e) == /\ e > 0
                   /\ RootLookahead(s, IF e <= Len(s) /\ s[e] = "/" /\ RootLookahead(s, e + 1) THEN e + 1 ELSE e)
    IN Rest(CalcPrefixEnd(s, 1))

RECURSIVE FindAllAzureE(_, _)
\* AZURE_E_RE.findall(s), scanning from position i
FindAllAzureE(s, i) ==
    LET Match(start, end) == <<SubSeq(s, start, end - 1)>> \o FindAllAzureE(s, end)
        Leftmost(ends) == IF \A k \in DOMAIN ends : ends[k] = 0 THEN <<>>
                          ELSE Match(Min({k \in DOMAIN ends : ends[k] > 0}),
                                     ends[Min({k \in DOMAIN ends : ends[k] > 0})])
    IN Leftmost([k \in i..Len(s) |-> AzureEEnd(s, k)])

RECURSIVE FindAllCalcAny(_, _)
\* CALC_ANY_RE.findall(s), scanning from position i
FindAllCalcAny(s, i) ==
    LET Match(start, end) == <<SubSeq(s, start, end - 1)>> \o FindAllCalcAny(s, end)
        Leftmost(ends) == IF \A k \in DOMAIN ends : ends[k] = 0 THEN <<>>
                          ELSE Match(Min({k \in DOMAIN ends : ends[k] > 0}),
                                     ends[Min({k \in DOMAIN ends : ends[k] > 0})])
    IN Leftmost([k \in i..Len(s) |-> CalcAnyEnd(s, k)])

\* u.rstrip(').,;')
RStripPunct(u) == RStripChars(u, {")", ".", ",", ";"})

\* the condition of the first branch of the calc_root/calc_other loop
IsCalcRoot(u) ==
    LET Bare(u_clean) == CalcRootMatch(u_clean) /\ \A k \in DOMAIN u_clean : u_clean[k] \notin {"?", "#"}
    IN Bare(RStripPunct(u))

RECURSIVE Dedup(_, _)
\* the elements of seq not in seen, each kept at its first occurrence
Dedup(seq, seen) ==
    IF Len(seq) = 0 THEN <<>>
    ELSE IF Head(seq) \in seen THEN Dedup(Tail(seq), seen)
    ELSE <<Head(seq)>> \o Dedup(Tail(seq), seen \cup {Head(seq)})

\* de-duplication that keeps the order of first occurrence instead of sorting
SortedUnique_FirstSeen(seq) == Dedup(seq, {})

\* sorted(set(seq))
SortedUnique(seq) == SortedSet(ToSet(seq))

\* the calc_other list with the "elif u not in calc_shared" test dropped
CalcOtherList_KeepsShared(calc_any, calc_shared) ==
    SelectSeq(calc_any, LAMBDA u : ~IsCalcRoot(u))

\* the calc_other list built by the loop over calc_any
CalcOtherList(calc_any, calc_shared) ==
    SelectSeq(calc_any, LAMBDA u : ~IsCalcRoot(u) /\ u \notin ToSet(calc_shared))

\* the calc_root list built by the loop over calc_any
CalcRootList(calc_any) ==
    LET Cleaned(roots) == [k \in 1..Len(roots) |-> RStripPunct(roots[k])]
    IN Cleaned(SelectSeq(calc_any, IsCalcRoot))

\* categorize_links(md_text)
categorize_links(md_text) ==
    LET Return(azure_experience_links, calc_any, calc_shared, calc_root, calc_other,
               shared_estimate_links, all_matching_links) ==
            [azure_experience_links |-> azure_experience_links,
             calculator_root_links |-> calc_root,
             calculator_shared_estimate_links |-> calc_shared,
             calculator_other_links |-> calc_other,
             shared_estimate_links |-> shared_estimate_links,
             pricing_calculator_links |-> calc_any,
             all_matching_links |-> all_matching_links,
             has_any_qualifying_links |-> Len(calc_root) > 0 \/ Len(shared_estimate_links) > 0 \/ Len(calc_other) > 0]
        Loop(azure_experience_links, calc_any, calc_shared) ==
            Return(azure_experience_links, calc_any, calc_shared,
                   SortedUnique(CalcRootList(calc_any)),
                   SortedUnique(CalcOtherList(calc_any, calc_shared)),
                   SortedUnique(azure_experience_links \o calc_shared),
                   SortedUnique(azure_experience_links \o calc_any))
        Shared(azure_experience_links, calc_any) ==
            Loop(azure_experience_links, calc_any,
                 SortedUnique(SelectSeq(calc_any, LAMBDA u : ContainsCI(u, <<"s","h","a","r","e","d","-","e","s","t","i","m","a","t","e","=">>))))
    IN Shared(SortedUnique(FindAllAzureE(md_text, 1)), SortedUnique(FindAllCalcAny(md_text, 1)))

(***************************************************************************)
(* pick_estimate_link (build_scan_results_xlsx.py).                        *)
(***************************************************************************)
\* AZURE_EXPERIENCE_RE.match(u)
AZURE_EXPERIENCE_RE(u) ==
    LET Rest(j, n) == j > 0 /\ MatchAtCI(u, j, <<"a","z","u","r","e",".","c","o","m","/","e","/">>) /\ n > j + 12 /\ AtEnd(u, n)
        After(j) == Rest(j, RunEnd(u, j + 12, {" ", "\t", "\n"}))
    IN After(HttpEnd(u, 1))

\* ^...pricing/calculator/?\?[^\s]*<param>[^\s]+$ matched against u
CalcQueryMatch(u, param) ==
    LET Query(e, q, n) == /\ e > 0
                          /\ q <= Len(u) /\ u[q] = "?"
                          /\ AtEnd(u, n)
                          /\ \E o \in (q + 1)..(n - 1) : MatchAtCI(u, o, param) /\ o + Len(param) <= n - 1
        Slash(e, q) == Query(e, q, RunEnd(u, q + 1, {" ", "\t", "\n"}))
        After(e) == Slash(e, IF e > 0 /\ e <= Len(u) /\ u[e] = "/" THEN e + 1 ELSE e)
    IN After(CalcPrefixEnd(u, 1))

\* SHARED_ESTIMATE_RE.match(u)
SHARED_ESTIMATE_RE(u) == CalcQueryMatch(u, <<"s","h","a","r","e","d","-","e","s","t","i","m","a","t","e","=">>)

\* SERVICE_RE.match(u)
SERVICE_RE(u) == CalcQueryMatch(u, <<"s","e","r","v","i","c","e","=">>)

RECURSIVE DedupNonEmpty(_, _)
\* the "normalize / dedupe while preserving order" loop
DedupNonEmpty(seq, seen) ==
    IF Len(seq) = 0 THEN <<>>
    ELSE IF Head(seq) = <<>> \/ Head(seq) \in seen THEN DedupNonEmpty(Tail(seq), seen)
    ELSE <<Head(seq)>> \o DedupNonEmpty(Tail(seq), seen \cup {Head(seq)})

\* the candidate list of pick_estimate_link after de-duplication
OrderedCandidates(item) ==
    LET Normalize(candidates) == DedupNonEmpty([k \in 1..Len(candidates) |-> Strip(candidates[k])], {})
    IN Normalize(item.azure_experience_links \o item.shared_estimate_links
                 \o item.pricing_calculator_links \o item.all_matching_links
                 \o item.calculator_other_links \o item.calculator_shared_estimate_links
                 \o item.calculator_root_links)

\* the three "for u in ordered" loops with the service tier tried before the others
pick_estimate_link_ServiceFirst(item) ==
    LET First(experience, shared, service) ==
            IF Len(service) > 0 THEN service[1]
            ELSE IF Len(experience) > 0 THEN experience[1]
            ELSE IF Len(shared) > 0 THEN shared[1]
            ELSE <<>>
        Tiers(ordered) == First(SelectSeq(ordered, AZURE_EXPERIENCE_RE),
                                SelectSeq(ordered, SHARED_ESTIMATE_RE),
                                SelectSeq(ordered, SERVICE_RE))
    IN Tiers(OrderedCandidates(item))

\* pick_estimate_link(item)
pick_estimate_link(item) ==
    LET First(experience, shared, service) ==
            IF Len(experience) > 0 THEN experience[1]
            ELSE IF Len(shared) > 0 THEN shared[1]
            ELSE IF Len(service) > 0 THEN service[1]
            ELSE <<>>
        Tiers(ordered) == First(SelectSeq(ordered, AZURE_EXPERIENCE_RE),
                                SelectSeq(ordered, SHARED_ESTIMATE_RE),
                                SelectSeq(ordered, SERVICE_RE))
    IN Tiers(OrderedCandidates(item))

(***************************************************************************)
(* Architecture Image Detector: the image patterns,                        *)
(* is_likely_architecture_image and find_architecture_images.              *)
(***************************************************************************)
\* IMG_EXT_RE, in the order of the alternation
ImgExts == <<<<"s","v","g">>, <<"p","n","g">>, <<"j","p","g">>, <<"j","p","e","g">>>>

\* (?:svg|png|jpg|jpeg) matched at position i: the length of the first
\* alternative that matches, or 0
ExtLenAt(s, i) ==
    LET FirstOf(exts, hit) == IF hit = {} THEN 0 ELSE Len(exts[Min(hit)])
        Try(exts) == FirstOf(exts, {k \in 1..Len(exts) : MatchAtCI(s, i, exts[k])})
    IN Try(ImgExts)

\* the positions d in lo..hi that hold a "." followed by an image extension
DotExtAt(s, lo, hi) == {d \in lo..hi : s[d] = "." /\ ExtLenAt(s, d + 1) > 0}

\* [^...]+\.(?:svg|png|jpg|jpeg) matched at position i, the class excluding stop:
\* the position after the match, or 0.  The greedy + backs off to the last
\* "." of the run that an extension follows.
PathExtEnd(s, i, stop) ==
    LET After(dot) == dot + 1 + ExtLenAt(s, dot + 1)
        BackOff(dots) == IF i > Len(s) \/ dots = {} THEN 0 ELSE After(Max(dots))
    IN BackOff(DotExtAt(s, i + 1, RunEnd(s, i, stop) - 1))

\* IMAGE_PATH_RE matched at position i: the position after the match, or 0
ImagePathEnd(s, i) == PathExtEnd(s, i, UrlStop)

RECURSIVE FindAllImagePaths(_, _)
\* IMAGE_PATH_RE.findall(s), scanning from position i
FindAllImagePaths(s, i) ==
    LET Match(start, end) == <<SubSeq(s, start, end - 1)>> \o FindAllImagePaths(s, end)
        Leftmost(ends) == IF \A k \in DOMAIN ends : ends[k] = 0 THEN <<>>
                          ELSE Match(Min({k \in DOMAIN ends : ends[k] > 0}),
                                     ends[Min({k \in DOMAIN ends : ends[k] > 0})])
    IN Leftmost([k \in i..Len(s) |-> ImagePathEnd(s, k)])

\* the characters of [\\\"'] in HTML_IMG_RE
QuoteChars == {"\\", "\"", "'"}

\* the positions j at which src=, a quote and the captured path match, for an
\* <img at position i whose [^>]+ ends before j
HtmlSrcStarts(s, i) ==
    {j \in (i + 5)..(RunEnd(s, i + 4, {">"}) - 1) :
        /\ MatchAtCI(s, j, <<"s","r","c","=">>)
        /\ j + 4 <= Len(s) /\ s[j + 4] \in QuoteChars
        /\ PathExtEnd(s, j + 5, QuoteChars) > 0}

\* HTML_IMG_RE matched at position i: <<start of group 1, position after the match>>,
\* or <<0, 0>>.  The greedy [^>]+ backs off to the last src= that completes the match.
HtmlImgMatch(s, i) ==
    LET Group(path) == <<path, PathExtEnd(s, path, QuoteChars)>>
        BackOff(srcs) == IF srcs = {} THEN <<0, 0>> ELSE Group(Max(srcs) + 5)
    IN IF MatchAtCI(s, i, <<"<","i","m","g">>) THEN BackOff(HtmlSrcStarts(s, i)) ELSE <<0, 0>>

RECURSIVE FindAllHtmlImg(_, _)
\* HTML_IMG_RE.findall(s), scanning from position i
FindAllHtmlImg(s, i) ==
    LET Match(m) == <<SubSeq(s, m[1], m[2] - 1)>> \o FindAllHtmlImg(s, m[2])
        Leftmost(ms) == IF \A k \in DOMAIN ms : ms[k][2] = 0 THEN <<>>
                        ELSE Match(ms[Min({k \in DOMAIN ms : ms[k][2] > 0})])
    IN Leftmost([k \in i..Len(s) |-> HtmlImgMatch(s, k)])

\* REF_USE_RE matched at position i: <<start of group 1, position of the closing "]">>,
\* or <<0, 0>>
RefUseMatch(s, i) ==
    LET Key(a, b) == IF /\ MatchAt(s, i, <<"!","[">>)
                        /\ a <= Len(s)
                        /\ a + 1 <= Len(s) /\ s[a + 1] = "["
                        /\ b <= Len(s) /\ b > a + 2
                     THEN <<a + 2, b>>
                     ELSE <<0, 0>>
        Alt(a) == Key(a, RunEnd(s, a + 2, {"]"}))
    IN Alt(RunEnd(s, i + 2, {"]"}))

RECURSIVE FindAllRefUse(_, _)
\* REF_USE_RE.findall(s), scanning from position i
FindAllRefUse(s, i) ==
    LET Match(m) == <<SubSeq(s, m[1], m[2] - 1)>> \o FindAllRefUse(s, m[2] + 1)
        Leftmost(ms) == IF \A k \in DOMAIN ms : ms[k][2] = 0 THEN <<>>
                        ELSE Match(ms[Min({k \in DOMAIN ms : ms[k][2] > 0})])
    IN Leftmost([k \in i..Len(s) |-> RefUseMatch(s, k)])

\* REF_DEF_RE matched at position i: <<end of key, start of target, position after
\* the match>>, or <<0, 0, 0>>
RefDefMatch(s, i) ==
    LET Target(a, w) == IF /\ i <= Len(s) /\ s[i] = "["
                           /\ (i = 1 \/ s[i - 1] = "\n")
                           /\ a <= Len(s) /\ a > i + 1
                           /\ a + 1 <= Len(s) /\ s[a + 1] = ":"
                           /\ w <= Len(s)
                        THEN <<a - 1, w, RunEnd(s, w, {" ", "\t", "\n"})>>
                        ELSE <<0, 0, 0>>
        Key(a) == Target(a, SkipSpaces(s, a + 2))
    IN Key(RunEnd(s, i + 1, {"]"}))

RECURSIVE FindAllRefDef(_, _)
\* REF_DEF_RE.findall(s), scanning from position i: the (key, target) pairs
FindAllRefDef(s, i) ==
    LET Match(k, m) == <<<<SubSeq(s, k + 1, m[1]), SubSeq(s, m[2], m[3] - 1)>>>> \o FindAllRefDef(s, m[3])
        At(ms, k) == Match(k, ms[k])
        Leftmost(ms) == IF \A k \in DOMAIN ms : ms[k][3] = 0 THEN <<>>
                        ELSE At(ms, Min({k \in DOMAIN ms : ms[k][3] > 0}))
    IN Leftmost([k \in i..Len(s) |-> RefDefMatch(s, k)])

\* extract_reference_map(md_text): the list of (key, target) entries in the order written
extract_reference_map(md_text) ==
    LET Entries(defs) == [k \in 1..Len(defs) |-> <<Lower(Strip(defs[k][1])), clean_ref(defs[k][2])>>]
    IN Entries(FindAllRefDef(md_text, 1))

\* ref_map.get(key): the target written last for the key, or None
RefMapGet(ref_map, key) ==
    LET Last(at) == IF at = {} THEN Absent ELSE ref_map[Max(at)][2]
    IN Last({k \in 1..Len(ref_map) : ref_map[k][1] = key})

\* \b at position i of s (between the characters i - 1 and i)
WordBoundary(s, i) ==
    (i >= 2 /\ i - 1 <= Len(s) /\ IsWord(s[i - 1])) /= (i >= 1 /\ i <= Len(s) /\ IsWord(s[i]))

\* THUMB_EXCLUDE_RE.search(s)
THUMB_EXCLUDE_RE(s) ==
    \E i \in 1..Len(s) :
        \/ MatchAtCI(s, i, <<"/","b","r","o","w","s","e","/","t","h","u","m","b","s","/">>)
        \/ (WordBoundary(s, i) /\ MatchAtCI(s, i, <<"t","h","u","m","b","s","/">>))
        \/ MatchAtCI(s, i, <<"t","h","u","m","b","n","a","i","l">>)
        \/ MatchAtCI(s, i, <<"s","o","c","i","a","l","_","i","m","a","g","e">>)
        \/ MatchAtCI(s, i, <<"/","i","c","o","n","s","/">>)

\* first\s*second matched at position i: the positions after the possible matches
TwoWordsEnds(s, i, first, second) ==
    LET Second(k) == IF MatchAtCI(s, k, second) THEN {k + Len(second)} ELSE {}
    IN IF ~MatchAtCI(s, i, first) THEN {}
       ELSE Second(SkipSpaces(s, i + Len(first)))

\* the alternation of ARCH_HINT_RE matched at position i: the positions after the matches
ArchHintEnds(s, i) ==
    {i + Len(w) : w \in {v \in {<<"a","r","c","h","i","t","e","c","t","u","r","e">>, <<"d","i","a","g","r","a","m">>, <<"d","a","t","a","f","l","o","w">>} : MatchAtCI(s, i, v)}}
    \cup TwoWordsEnds(s, i, <<"r","e","f","e","r","e","n","c","e">>, <<"a","r","c","h","i","t","e","c","t","u","r","e">>)
    \cup TwoWordsEnds(s, i, <<"n","e","t","w","o","r","k">>, <<"t","o","p","o","l","o","g","y">>)

\* ARCH_HINT_RE.search(s)
ARCH_HINT_RE(s) ==
    \E i \in 1..Len(s) :
        WordBoundary(s, i) /\ \E e \in ArchHintEnds(s, i) : WordBoundary(s, e)

\* the reference keys that name a diagram
DiagramKeys == {<<"a","r","c","h","i","t","e","c","t","u","r","e">>, <<"a","r","c","h">>, <<"a","r","c","h","i","t","e","c","t","u","r","e","d","i","a","g","r","a","m">>, <<"a","r","c","h","i","t","e","c","t","u","r","e","-","d","i","a","g","r","a","m">>, <<"d","i","a","g","r","a","m">>}

\* s.split('/')[-1]
LastSegment(s) == LET Last(parts) == parts[Len(parts)] IN Last(SplitOn(s, "/"))

\* the rules of is_likely_architecture_image with the thumbnail test made after
\* the inclusion rules instead of before them
ImageRules_ExcludeLast(p, line, key, fname) ==
    IF Contains(line, <<":",":",":","i","m","a","g","e">>) THEN TRUE
    ELSE IF key \in DiagramKeys THEN TRUE
    ELSE IF ARCH_HINT_RE(line) THEN TRUE
    ELSE IF ARCH_HINT_RE(fname) THEN TRUE
    ELSE IF THUMB_EXCLUDE_RE(p) \/ THUMB_EXCLUDE_RE(line) THEN FALSE
    ELSE FALSE

\* the rules of is_likely_architecture_image on the lower-cased path, line and
\* key and the file name of the path
ImageRules(p, line, key, fname) ==
    IF THUMB_EXCLUDE_RE(p) \/ THUMB_EXCLUDE_RE(line) THEN FALSE
    ELSE IF Contains(line, <<":",":",":","i","m","a","g","e">>) THEN TRUE
    ELSE IF key \in DiagramKeys THEN TRUE
    ELSE IF ARCH_HINT_RE(line) THEN TRUE
    ELSE IF ARCH_HINT_RE(fname) THEN TRUE
    ELSE IF (Contains(p, <<"/","_","i","m","a","g","e","s","/">>) \/ Contains(p, <<"/","i","m","a","g","e","s","/">>) \/ Contains(p, <<"/","m","e","d","i","a","/">>))
            /\ ARCH_HINT_RE(fname) THEN TRUE
    ELSE FALSE

\* is_likely_architecture_image(img_path, context_line, ref_key); ref_key None is Absent
is_likely_architecture_image(img_path, context_line, ref_key) ==
    ImageRules(Lower(img_path), Lower(context_line), Lower(ref_key), LastSegment(Lower(img_path)))

\* md_text.splitlines()
splitlines(md_text) ==
    LET Lines(parts) == IF parts[Len(parts)] = <<>> THEN SubSeq(parts, 1, Len(parts) - 1) ELSE parts
    IN Lines(SplitOn(md_text, "\n"))

\* re.search(r"\.(?:svg|png|jpg|jpeg)$", target, re.IGNORECASE)
HasImageExtension(target) ==
    LET Ends(exts) == \E d \in 1..Len(target) :
                         /\ target[d] = "."
                         /\ \E k \in 1..Len(exts) :
                               MatchAtCI(target, d + 1, exts[k]) /\ AtEnd(target, d + 1 + Len(exts[k]))
    IN Ends(ImgExts)

\* the candidates that the first two passes keep of the raw paths found in a line
AcceptedPaths(raws, line) ==
    SelectSeq([k \in 1..Len(raws) |-> [path |-> clean_ref(raws[k]), key |-> Absent, line |-> line]],
              LAMBDA c : is_likely_architecture_image(c.path, c.line, Absent))

\* the candidates one line yields in the first pass (inline image paths)
InlineFound(line) == AcceptedPaths(FindAllImagePaths(line, 1), line)

\* the candidates one line yields in the second pass (<img src=...>)
HtmlFound(line) == AcceptedPaths(FindAllHtmlImg(line, 1), line)

\* the candidates that the third pass keeps of the reference keys used in a line
AcceptedRefs(keys, line, ref_map) ==
    SelectSeq([k \in 1..Len(keys) |-> [path |-> RefMapGet(ref_map, keys[k]), key |-> keys[k], line |-> line]],
              LAMBDA c : /\ c.path /= <<>>
                         /\ HasImageExtension(c.path)
                         /\ is_likely_architecture_image(c.path, c.line, c.key))

\* the candidates one line yields in the third pass (reference-style images)
RefFound(line, ref_map) ==
    AcceptedRefs([k \in 1..Len(FindAllRefUse(line, 1)) |-> Lower(Strip(FindAllRefUse(line, 1)[k]))],
                 line, ref_map)

RECURSIVE DedupByLowerPath(_, _)
\* the final loop: the first candidate of each lower-cased path
DedupByLowerPath(found, seen) ==
    LET Keep(item, key) == IF key \in seen THEN DedupByLowerPath(Tail(found), seen)
                           ELSE <<item>> \o DedupByLowerPath(Tail(found), seen \cup {key})
    IN IF Len(found) = 0 THEN <<>> ELSE Keep(Head(found), Lower(Head(found).path))

\* the candidates of the three passes over the lines, in the order found
ThreePasses(lines, ref_map) ==
    Concat([k \in 1..Len(lines) |-> InlineFound(lines[k])])
    \o Concat([k \in 1..Len(lines) |-> HtmlFound(lines[k])])
    \o Concat([k \in 1..Len(lines) |-> RefFound(lines[k], ref_map)])

\* find_architecture_images(md_text): the (raw, key, line) tuples as records
find_architecture_images(md_text) ==
    DedupByLowerPath(ThreePasses(splitlines(md_text), extract_reference_map(md_text)), {})
(***************************************************************************)
(* Document Evaluator: the include directive, the URL builders and the     *)
(* record of one document.                                                 *)
(***************************************************************************)
\* INCLUDE_RE matched at position i: <<first, last>> position of group 1, or <<0, 0>>.
\* a, b, c are the positions of "[", "]" and "(", d..e-1 is the run [^\)\s]+ that
\* must end in ".md", f and g are the positions of ")" and "]".
IncludeMatchAt(s, i) ==
    LET Closing(d, e, f, g) == IF /\ e - d >= 4 /\ MatchAtCI(s, e - 3, <<".","m","d">>)
                                  /\ f <= Len(s) /\ s[f] = ")"
                                  /\ g <= Len(s) /\ s[g] = "]"
                               THEN <<d, e - 1>>
                               ELSE <<0, 0>>
        Paren(d, e, f) == Closing(d, e, f, SkipSpaces(s, f + 1))
        Target(d, e) == Paren(d, e, SkipSpaces(s, e))
        Open(c, d) == IF c <= Len(s) /\ s[c] = "(" THEN Target(d, RunEnd(s, d, {")", " ", "\t", "\n"})) ELSE <<0, 0>>
        Label(b, c) == IF b <= Len(s) /\ s[b] = "]" THEN Open(c, SkipSpaces(s, c + 1)) ELSE <<0, 0>>
        Bracket(a, b) == IF a <= Len(s) /\ s[a] = "[" THEN Label(b, SkipSpaces(s, b + 1)) ELSE <<0, 0>>
        Word(a) == Bracket(a, SkipSpaces(s, a + 1))
    IN IF MatchAtCI(s, i, <<"[","!","I","N","C","L","U","D","E">>) THEN Word(SkipSpaces(s, i + 9)) ELSE <<0, 0>>

\* INCLUDE_RE.search(content): <<first, last>> position of group 1 in the leftmost
\* match, or <<0, 0>> when there is none
IncludeSearch(content) ==
    LET Leftmost(ms) == IF \A i \in DOMAIN ms : ms[i][1] = 0 THEN <<0, 0>>
                        ELSE ms[Min({i \in DOMAIN ms : ms[i][1] > 0})]
    IN Leftmost([i \in 1..Len(content) |-> IncludeMatchAt(content, i)])

\* INCLUDE_RE.search(content) finds a match
IncludeFound(content) == IncludeSearch(content)[1] > 0

\* INCLUDE_RE.search(content).group(1)
IncludeRef(content) ==
    LET Group(m) == SubSeq(content, m[1], m[2])
    IN Group(IncludeSearch(content))

\* repo_slug and args.branch, at their defaults
RepoSlug == <<"M","i","c","r","o","s","o","f","t","D","o","c","s","/","a","r","c","h","i","t","e","c","t","u","r","e","-","c","e","n","t","e","r">>
Branch == <<"m","a","i","n">>

\* make_raw_url(repo_slug, branch, repo_rel_path)
make_raw_url(repo_slug, branch, repo_rel_path) ==
    <<"h","t","t","p","s",":","/","/","r","a","w",".","g","i","t","h","u","b","u","s","e","r","c","o","n","t","e","n","t",".","c","o","m","/">> \o repo_slug \o <<"/">> \o branch \o <<"/">>
        \o LStripChars(repo_rel_path, {"/"})

\* make_github_blob_url(repo_slug, branch, repo_rel_path)
make_github_blob_url(repo_slug, branch, repo_rel_path) ==
    <<"h","t","t","p","s",":","/","/","g","i","t","h","u","b",".","c","o","m","/">> \o repo_slug \o <<"/","b","l","o","b","/">> \o branch \o <<"/">>
        \o LStripChars(repo_rel_path, {"/"})

\* s.lower().endswith(suffix)
EndsWithCI(s, suffix) == Len(s) >= Len(suffix) /\ MatchAtCI(s, Len(s) - Len(suffix) + 1, suffix)

\* make_learn_url_from_docs_path(repo_rel_yml)
make_learn_url_from_docs_path(repo_rel_yml) ==
    LET NoExt(p) == IF EndsWithCI(p, <<".","y","m","l">>) THEN SubSeq(p, 1, Len(p) - 4)
                    ELSE IF EndsWithCI(p, <<".","y","a","m","l">>) THEN SubSeq(p, 1, Len(p) - 5)
                    ELSE p
        NoDocs(p) == NoExt(IF MatchAt(p, 1, <<"d","o","c","s","/">>) THEN From(p, 6) ELSE p)
    IN <<"h","t","t","p","s",":","/","/","l","e","a","r","n",".","m","i","c","r","o","s","o","f","t",".","c","o","m","/","e","n","-","u","s","/","a","z","u","r","e","/","a","r","c","h","i","t","e","c","t","u","r","e","/">>
       \o NoDocs([k \in 1..Len(repo_rel_yml) |-> IF repo_rel_yml[k] = "\\" THEN "/" ELSE repo_rel_yml[k]])

\* a or b, for values whose only falsy form here is None or the empty string
PyOr(a, b) == IF a /= <<>> THEN a ELSE b

\* as_list(val); val is [kind |-> "none"], [kind |-> "list", val |-> ...] or
\* [kind |-> "scalar", val |-> ...]
as_list(val) ==
    IF val.kind = "none" THEN <<>>
    ELSE IF val.kind = "list" THEN val.val
    ELSE <<val.val>>

\* extract_yaml_meta(data): title, description, azure_categories, author, ms_author
extract_yaml_meta(data) ==
    [title |-> PyOr(data.meta.title, data.title),
     description |-> PyOr(data.meta.description, data.description),
     azure_categories |-> as_list(data.azureCategories),
     author |-> PyOr(data.meta.author, data.author),
     ms_author |-> PyOr(data.meta.ms_author, data.ms_author)]

\* the record with criteria_passed initialised to True
BaseRecord_PassedByDefault(repo_rel_yml) ==
    [criteria_passed |-> TRUE,
     failure_reason |-> "",
     title |-> Absent,
     description |-> Absent,
     azureCategories |-> <<>>,
     yml_url |-> make_learn_url_from_docs_path(repo_rel_yml),
     yml_github_url |-> make_github_blob_url(RepoSlug, Branch, repo_rel_yml),
     yml_path |-> repo_rel_yml,
     include_md_path |-> Absent,
     include_md_github_url |-> Absent,
     md_author_github |-> Absent,
     md_ms_author |-> Absent,
     architecture_image_heuristic |-> FALSE,
     image_paths |-> <<>>,
     image_download_urls |-> <<>>,
     image_exists_in_repo |-> <<>>,
     image_formats |-> <<>>,
     svg_paths |-> <<>>,
     svg_download_urls |-> <<>>,
     svg_exists_in_repo |-> <<>>,
     azure_experience_links |-> <<>>,
     calculator_root_links |-> <<>>,
     calculator_shared_estimate_links |-> <<>>,
     calculator_other_links |-> <<>>,
     pricing_calculator_links |-> <<>>,
     shared_estimate_links |-> <<>>,
     all_matching_links |-> <<>>]

\* base: the record of a document before any stage has run
BaseRecord(repo_rel_yml) ==
    [criteria_passed |-> FALSE,
     failure_reason |-> "",
     title |-> Absent,
     description |-> Absent,
     azureCategories |-> <<>>,
     yml_url |-> make_learn_url_from_docs_path(repo_rel_yml),
     yml_github_url |-> make_github_blob_url(RepoSlug, Branch, repo_rel_yml),
     yml_path |-> repo_rel_yml,
     include_md_path |-> Absent,
     include_md_github_url |-> Absent,
     md_author_github |-> Absent,
     md_ms_author |-> Absent,
     architecture_image_heuristic |-> FALSE,
     image_paths |-> <<>>,
     image_download_urls |-> <<>>,
     image_exists_in_repo |-> <<>>,
     image_formats |-> <<>>,
     svg_paths |-> <<>>,
     svg_download_urls |-> <<>>,
     svg_exists_in_repo |-> <<>>,
     azure_experience_links |-> <<>>,
     calculator_root_links |-> <<>>,
     calculator_shared_estimate_links |-> <<>>,
     calculator_other_links |-> <<>>,
     pricing_calculator_links |-> <<>>,
     shared_estimate_links |-> <<>>,
     all_matching_links |-> <<>>]

\* the metadata assignments made once the YAML is a mapping
WithMeta(base, meta) ==
    [base EXCEPT !.title = meta.title,
                 !.description = meta.description,
                 !.azureCategories = meta.azure_categories]

\* the include assignments made once the include target resolves
WithInclude(base, include_md_rel) ==
    [base EXCEPT !.include_md_path = include_md_rel,
                 !.include_md_github_url = make_github_blob_url(RepoSlug, Branch, include_md_rel)]

\* the front matter of a file that has none, or none that is a mapping
NoFrontMatter == [author |-> Absent, ms_author |-> Absent]

\* parse_md_front_matter(md_text); fm is what yaml.safe_load returns for the
\* front matter when it is a mapping, and Absent otherwise
parse_md_front_matter(md_text, fm) ==
    IF ~MatchAt(md_text, 1, <<"-","-","-">>) THEN NoFrontMatter
    ELSE IF ~\E i \in 4..Len(md_text) : MatchAt(md_text, i, <<"\n","-","-","-">>) THEN NoFrontMatter
    ELSE IF fm = Absent THEN NoFrontMatter
    ELSE fm

\* the author and link-bucket assignments made once the include file is read
WithMd(base, meta, fm, link_info) ==
    [base EXCEPT !.md_author_github = PyOr(fm.author, meta.author),
                 !.md_ms_author = PyOr(fm.ms_author, meta.ms_author),
                 !.azure_experience_links = link_info.azure_experience_links,
                 !.calculator_root_links = link_info.calculator_root_links,
                 !.calculator_shared_estimate_links = link_info.calculator_shared_estimate_links,
                 !.calculator_other_links = link_info.calculator_other_links,
                 !.pricing_calculator_links = link_info.pricing_calculator_links,
                 !.shared_estimate_links = link_info.shared_estimate_links,
                 !.all_matching_links = link_info.all_matching_links]

\* the two tests after the include file is read, the image test made first
Verdict_ImagesFirst(has_links_any, has_arch_imgs_any) ==
    IF ~has_arch_imgs_any THEN "no_architecture_images"
    ELSE IF ~has_links_any THEN "no_matching_links"
    ELSE ""

\* the link test alone after the include file is read
Verdict_LinksOnly(has_links_any, has_arch_imgs_any) ==
    IF ~has_links_any THEN "no_matching_links" ELSE ""

\* the two tests after the include file is read: the failure reason, or ""
Verdict(has_links_any, has_arch_imgs_any) ==
    IF ~has_links_any THEN "no_matching_links"
    ELSE IF ~has_arch_imgs_any THEN "no_architecture_images"
    ELSE ""

\* base with the failure reason set
Failed(base, reason) == [base EXCEPT !.failure_reason = reason]
(***************************************************************************)
(* Values of the scan variables while a pure function is applied.          *)
(***************************************************************************)
\* a file that has not been written
NoFile == [exists |-> FALSE]

ScanIdle ==
    /\ corpus = <<>>
    /\ disk = <<>>
    /\ debug = FALSE
    /\ yml_files = <<>>
    /\ pos = 0
    /\ results = <<>>
    /\ counts = <<>>
    /\ failures = <<>>
    /\ scan_results_json = NoFile
    /\ scan_debug_json = NoFile
    /\ scan_results_xlsx = NoFile
    /\ est_df = NoFile

NotApplied == [done |-> FALSE]

(***************************************************************************)
(* Corpus Scanner: the filesystem, the enumeration and the loop body.      *)
(***************************************************************************)
\* docs_root = 'docs' (the --docs-root default)
DocsRoot == <<<<"d","o","c","s">>>>

\* what the filesystem holds at a path absent from disk
Missing == [kind |-> "missing"]

\* the entry of disk at a path given relative to repo_root ("missing" for a
\* path outside repo_root or absent from disk)
DiskEntry(rel) ==
    LET At(inside, key) == IF inside /\ key \in DOMAIN disk THEN disk[key] ELSE Missing
        Below(p) == At(IsUnder(p, RepoRoot), as_posix(SubSeq(p, Len(RepoRoot) + 1, Len(p))))
    IN Below(ResolveDots(<<>>, RepoRoot \o PathSegments(rel)))

\* (repo_root / rel).exists()
PathExists(rel) == DiskEntry(rel).kind /= "missing"

\* Path.parent of a path given relative to repo_root, as an absolute segment list
ParentDir(rel) ==
    LET Parent(segs) == RepoRoot \o SubSeq(segs, 1, Len(segs) - 1)
    IN Parent(PathSegments(rel))

\* yml_files: rglob('*.yml') + rglob('*.yaml') over the tree below docs_root,
\* de-duplicated and sorted by str(p); tree is the set of paths of the tree
EnumerateYaml(tree) ==
    LET Listed(below) ==
            SortedUnique(SortedSet({p \in below : EndsWithCI(p, <<".","y","m","l">>)})
                         \o SortedSet({p \in below : EndsWithCI(p, <<".","y","a","m","l">>)}))
    IN Listed({p \in tree : MatchAt(p, 1, as_posix(DocsRoot) \o <<"/">>)})

\* load_yaml(path): the parsed data, or None when reading or parsing raises
load_yaml(path) ==
    IF corpus[path].kind = "raises" THEN [kind |-> "none"] ELSE corpus[path]

\* isinstance(data, dict)
IsDict(data) == data.kind = "dict"

\* counts[key] += 1
Bump(c, key) == [c EXCEPT ![key] = @ + 1]

\* the failure counter left as it is
BumpFailed_Forgotten(c) == c

\* counts['failed'] += 1
BumpFailed(c) == [c EXCEPT !.failed = @ + 1]

\* the image counter incremented only when the text has a qualifying link
CountFindings_ImagesAfterLinks(c, has_links_any, has_arch_imgs_any) ==
    [c EXCEPT !.md_has_links_any = IF has_links_any THEN @ + 1 ELSE @,
              !.md_has_arch_images_any = IF has_links_any /\ has_arch_imgs_any THEN @ + 1 ELSE @]

\* the two "if ...: counts[...] += 1" after categorize_links and find_architecture_images
CountFindings(c, has_links_any, has_arch_imgs_any) ==
    [c EXCEPT !.md_has_links_any = IF has_links_any THEN @ + 1 ELSE @,
              !.md_has_arch_images_any = IF has_arch_imgs_any THEN @ + 1 ELSE @]

\* fmt = img_ref.split('.')[-1].lower() if '.' in img_ref else None
ImageFormat(img_ref) ==
    LET Last(parts) == IF Len(parts) > 1 THEN Lower(parts[Len(parts)]) ELSE Absent
    IN Last(SplitOn(img_ref, "."))

\* what the image loop computes for one accepted image
ImageEntry(raw, md_parent) ==
    LET Entry(img_rel, fmt) == [rel |-> img_rel,
                                url |-> make_raw_url(RepoSlug, Branch, img_rel),
                                exists |-> PathExists(img_rel),
                                fmt |-> fmt]
        Fallback(img_ref, img_rel) ==
            Entry(IF img_rel = Absent THEN LStripChars(Strip(img_ref), {"/"}) ELSE img_rel,
                  ImageFormat(img_ref))
        Resolve(img_ref) == Fallback(img_ref, resolve_repo_rel(md_parent, img_ref, RepoRoot))
    IN Resolve(clean_ref(raw))

\* the image loop and the assignments of a document that passes
WithImages(base, arch_imgs, md_parent) ==
    LET Assign(e, svg) ==
            [base EXCEPT !.criteria_passed = TRUE,
                         !.failure_reason = "",
                         !.architecture_image_heuristic = TRUE,
                         !.image_paths = [k \in DOMAIN e |-> e[k].rel],
                         !.image_download_urls = [k \in DOMAIN e |-> e[k].url],
                         !.image_exists_in_repo = [k \in DOMAIN e |-> e[k].exists],
                         !.image_formats = [k \in DOMAIN e |-> e[k].fmt],
                         !.svg_paths = [k \in DOMAIN svg |-> svg[k].rel],
                         !.svg_download_urls = [k \in DOMAIN svg |-> svg[k].url],
                         !.svg_exists_in_repo = [k \in DOMAIN svg |-> svg[k].exists]]
        Loop(e) == Assign(e, SelectSeq(e, LAMBDA x : x.fmt = <<"s","v","g">>))
    IN Loop([k \in 1..Len(arch_imgs) |-> ImageEntry(arch_imgs[k].path, md_parent)])

\* the record of a failing document that keeps the image assignments
JudgedRecord_ImagesKept(reason, linked, imaged) ==
    IF reason = "" THEN imaged
    ELSE [imaged EXCEPT !.criteria_passed = FALSE, !.failure_reason = reason]

\* the record after the two tests: the image assignments are made only when
\* both tests pass
JudgedRecord(reason, linked, imaged) ==
    IF reason = "" THEN imaged ELSE Failed(linked, reason)

\* where the loop body stands with the record rec and the counters c: kind is
\* "fail" (results.append, failed counter, continue; entry is the debug entry),
\* "pass" (results.append, matched counter), "raise" (read_text raises) or
\* "read" (read_text returns; entry holds what the rest of the body uses)
Outcome(kind, rec, c, entry) == [kind |-> kind, rec |-> rec, counts |-> c, entry |-> entry]

\* how the loop body ends after the two tests; reason is "" when both pass
StageVerdict(yml, c, include_md_rel, linked, arch_imgs, reason) ==
    IF reason = ""
    THEN Outcome("pass", JudgedRecord(reason, linked, WithImages(linked, arch_imgs, ParentDir(include_md_rel))),
                 c, <<>>)
    ELSE Outcome("fail", JudgedRecord(reason, linked, WithImages(linked, arch_imgs, ParentDir(include_md_rel))),
                 c, [yml_path |-> yml, reason |-> reason, include_md_path |-> include_md_rel])

\* the loop body from the link-bucket assignments to the two counters
StageFindings(yml, c, meta, base, include_md_rel, md, link_info, arch_imgs) ==
    StageVerdict(yml,
                 CountFindings(c, link_info.has_any_qualifying_links, Len(arch_imgs) > 0),
                 include_md_rel,
                 WithMd(base, meta, parse_md_front_matter(md.text, md.fm), link_info),
                 arch_imgs,
                 Verdict(link_info.has_any_qualifying_links, Len(arch_imgs) > 0))

\* the loop body after md_file.read_text returns; read is where the body stood
AfterRead(read) ==
    StageFindings(read.entry.yml_path, read.counts, read.entry.meta, read.rec,
                  read.entry.include_md_path, read.entry.md,
                  categorize_links(read.entry.md.text), find_architecture_images(read.entry.md.text))

\* the loop body from the existence test to md_file.read_text; md is what the
\* disk holds at the include path.  read_text raises for a path that exists
\* and is no file.
StageRead(yml, c, meta, base, include_md_rel, md) ==
    IF md.kind = "missing"
    THEN Outcome("fail", Failed(base, "include_md_missing"), c,
                 [yml_path |-> yml, reason |-> "include_md_missing", include_md_path |-> include_md_rel])
    ELSE IF md.kind /= "file"
    THEN Outcome("raise", base, Bump(c, "include_md_exists"), <<>>)
    ELSE Outcome("read", base, Bump(c, "include_md_exists"),
                 [yml_path |-> yml, meta |-> meta, include_md_path |-> include_md_rel, md |-> md])

\* the loop body from the test of the resolved include path on
StageResolved(yml, c, meta, base, include_md_ref, include_md_rel) ==
    IF include_md_rel = Absent
    THEN Outcome("fail",
                 [Failed(base, "include_md_unresolvable") EXCEPT !.include_md_path = include_md_ref],
                 c,
                 [yml_path |-> yml, reason |-> "include_md_unresolvable", include_md_ref |-> include_md_ref])
    ELSE StageRead(yml, c, meta, WithInclude(base, include_md_rel), include_md_rel, DiskEntry(include_md_rel))

\* the loop body from the content test on
StageContent(yml, c, data, meta, base) ==
    IF ~data.content_is_str
    THEN Outcome("fail", Failed(base, "missing_content_string"), c,
                 [yml_path |-> yml, reason |-> "missing_content_string"])
    ELSE IF ~IncludeFound(data.content)
    THEN Outcome("fail", Failed(base, "no_include_directive"), Bump(c, "has_content"),
                 [yml_path |-> yml, reason |-> "no_include_directive"])
    ELSE StageResolved(yml, Bump(Bump(c, "has_content"), "has_include"), meta, base,
                       IncludeRef(data.content),
                       resolve_repo_rel(ParentDir(yml), IncludeRef(data.content), RepoRoot))

\* the loop body from the test of the loaded YAML on
StageParsed(yml, c, data, meta) ==
    IF ~IsDict(data)
    THEN Outcome("fail", Failed(BaseRecord(yml), "yaml_parse_failed"), c,
                 [yml_path |-> yml, reason |-> "yaml_parse_failed"])
    ELSE StageContent(yml, Bump(c, "yml_parsed"), data, meta, WithMeta(BaseRecord(yml), meta))

\* the loop body for the YAML file yml up to md_file.read_text; c is counts before it
StageYaml(yml, c) == StageParsed(yml, c, load_yaml(yml), extract_yaml_meta(load_yaml(yml)))

\* the loop is at a document
Scanning == pc = "scan" /\ pos < Len(yml_files)

\* the loop body for the document the loop is at, up to md_file.read_text
Body == StageYaml(yml_files[pos + 1], counts)

\* results.append(base); counts['failed'] += 1; the debug entry; continue
EmitFailure(out) ==
    /\ results' = Append(results, out.rec)
    /\ counts' = BumpFailed(out.counts)
    /\ failures' = IF debug THEN Append(failures, out.entry) ELSE failures
    /\ pos' = pos + 1
    /\ UNCHANGED <<pc, corpus, disk, debug, yml_files, outVars, fn_arg, fn_ret>>

\* the loop body leaves through "if not isinstance(data, dict):"
FailYamlParse ==
    /\ Scanning
    /\ \E out \in {Body} :
          /\ out.kind = "fail"
          /\ out.rec.failure_reason = "yaml_parse_failed"
          /\ EmitFailure(out)

\* the loop body leaves through "if not isinstance(content, str):"
FailMissingContent ==
    /\ Scanning
    /\ \E out \in {Body} :
          /\ out.kind = "fail"
          /\ out.rec.failure_reason = "missing_content_string"
          /\ EmitFailure(out)

\* the loop body leaves through "if not inc:"
FailNoInclude ==
    /\ Scanning
    /\ \E out \in {Body} :
          /\ out.kind = "fail"
          /\ out.rec.failure_reason = "no_include_directive"
          /\ EmitFailure(out)

\* the loop body leaves through "if not include_md_rel:"
FailUnresolvable ==
    /\ Scanning
    /\ \E out \in {Body} :
          /\ out.kind = "fail"
          /\ out.rec.failure_reason = "include_md_unresolvable"
          /\ EmitFailure(out)

\* the loop body leaves through "if not md_file.exists():"
FailIncludeMissing ==
    /\ Scanning
    /\ \E out \in {Body} :
          /\ out.kind = "fail"
          /\ out.rec.failure_reason = "include_md_missing"
          /\ EmitFailure(out)

\* the loop body leaves through "if not has_links_any:"
FailNoLinks ==
    /\ Scanning
    /\ \E read \in {Body} :
          /\ read.kind = "read"
          /\ \E out \in {AfterRead(read)} :
                /\ out.kind = "fail"
                /\ out.rec.failure_reason = "no_matching_links"
                /\ EmitFailure(out)

\* the loop body leaves through "if not has_arch_imgs_any:"
FailNoImages ==
    /\ Scanning
    /\ \E read \in {Body} :
          /\ read.kind = "read"
          /\ \E out \in {AfterRead(read)} :
                /\ out.kind = "fail"
                /\ out.rec.failure_reason = "no_architecture_images"
                /\ EmitFailure(out)

\* md_file.read_text raises (the path exists but cannot be read as a file):
\* nothing in scan() or main() catches the exception
AbortOnRead ==
    /\ Scanning
    /\ \E out \in {Body} :
          /\ out.kind = "raise"
          /\ counts' = out.counts
    /\ pc' = "aborted"
    /\ UNCHANGED <<corpus, disk, debug, yml_files, pos, results, failures, outVars, fn_arg, fn_ret>>

\* the loop body runs to its end: results.append(base); counts['matched'] += 1
Pass ==
    /\ Scanning
    /\ \E read \in {Body} :
          /\ read.kind = "read"
          /\ \E out \in {AfterRead(read)} :
                /\ out.kind = "pass"
                /\ results' = Append(results, out.rec)
                /\ counts' = Bump(out.counts, "matched")
    /\ pos' = pos + 1
    /\ UNCHANGED <<pc, corpus, disk, debug, yml_files, failures, outVars, fn_arg, fn_ret>>

\* return results, counts, failures
Finish ==
    /\ pc = "scan"
    /\ pos = Len(yml_files)
    /\ pc' = "done"
    /\ UNCHANGED <<corpus, disk, debug, yml_files, pos, results, counts, failures, outVars, fn_arg, fn_ret>>


(***************************************************************************)
(* main() after scan() has returned, build_scan_results_xlsx.py and        *)
(* run_compare_only.py.  A JSON file is held as the value json.loads       *)
(* gives back for it: the values written are dicts, lists, strings,        *)
(* booleans and None, which json.dumps and json.loads carry unchanged.     *)
(***************************************************************************)
\* the length of the slice failures[:1000]
SampleCap == 1000

\* the whole list in place of the slice
FailuresSample_Uncapped(fails) == fails

\* failures[:1000]
FailuresSample(fails) == SubSeq(fails, 1, IF Len(fails) < SampleCap THEN Len(fails) ELSE SampleCap)

\* dbg, as main() builds it
DebugDump(c, fails) ==
    [exists |-> TRUE, counts |-> c, failures_total |-> Len(fails),
     failures_sample |-> FailuresSample(fails)]

\* main() from the return of scan() to its end: args.output is written, and
\* scan-debug.json "if args.debug"
WriteOutputs ==
    /\ pc = "done"
    /\ scan_results_json' = [exists |-> TRUE, count |-> Len(results), items |-> results]
    /\ scan_debug_json' = IF debug THEN DebugDump(counts, failures) ELSE scan_debug_json
    /\ pc' = "written"
    /\ UNCHANGED <<corpus, disk, debug, yml_files, pos, results, counts, failures,
                   scan_results_xlsx, est_df, fn_arg, fn_ret>>

RECURSIVE JoinWith(_, _)
\* sep.join(parts)
JoinWith(parts, sep) ==
    IF Len(parts) = 0 THEN <<>>
    ELSE IF Len(parts) = 1 THEN parts[1]
    ELSE parts[1] \o sep \o JoinWith(Tail(parts), sep)

\* the dict that build_scan_results_xlsx.main appends to rows for the item it;
\* the item has no md_author_name and no md_ms_author_name key.  join_list
\* joins with the newline: its string literal holds the line break itself.
SheetRow(it) ==
    [title |-> PyOr(it.title, <<>>),
     description |-> PyOr(it.description, <<>>),
     azureCategories |-> JoinWith(it.azureCategories, <<";"," ">>),
     yml_url |-> PyOr(it.yml_url, <<>>),
     image_download_urls |-> JoinWith(it.image_download_urls, <<"\n">>),
     estimate_link |-> pick_estimate_link(it),
     criteria_passed |-> it.criteria_passed,
     failure_reason |-> it.failure_reason,
     yml_path |-> PyOr(it.yml_path, <<>>),
     include_md_path |-> PyOr(it.include_md_path, <<>>),
     md_author_name |-> PyOr(it.md_author_github, <<>>),
     md_ms_author_name |-> PyOr(it.md_ms_author, <<>>)]

\* build_scan_results_xlsx.main: one row per item of scan-results.json, in
\* the order of the items.  A sheet written from no rows has no header.
BuildRows ==
    /\ pc = "written"
    /\ scan_results_xlsx' =
           [exists |-> TRUE,
            columns |-> IF Len(scan_results_json.items) = 0 THEN {}
                        ELSE DOMAIN SheetRow(scan_results_json.items[1]),
            rows |-> [k \in 1..Len(scan_results_json.items) |-> SheetRow(scan_results_json.items[k])]]
    /\ pc' = "built"
    /\ UNCHANGED <<corpus, disk, debug, yml_files, pos, results, counts, failures,
                   scan_results_json, scan_debug_json, est_df, fn_arg, fn_ret>>

\* the value pandas gives for an empty cell
NaN == [nan |-> TRUE]

\* a cell of a sheet as read_excel gives it back: the empty string is
\* written as an empty cell and read as NaN
ReadCell(cell) == IF cell = <<>> THEN NaN ELSE cell

\* astype(str) alone: the cell neither trimmed nor put in lower case
NormUrl_AsWritten(cell) == IF cell = NaN THEN <<"n","a","n">> ELSE cell

\* astype(str).str.strip().str.lower() of a cell
NormUrl(cell) == IF cell = NaN THEN <<"n","a","n">> ELSE Lower(Strip(cell))

\* known = set(est_df['_norm'].dropna())
Known(est) == {NormUrl(ReadCell(est[k])) : k \in 1..Len(est)}

\* mask: estimate_link.notna() and estimate_link.astype(str).str.strip() != ''
HasEstimateLink(row) ==
    /\ ReadCell(row.estimate_link) /= NaN
    /\ Strip(row.estimate_link) /= <<>>

\* the comparison_status of a row, decided by the criteria_passed column
ComparisonStatus_ByCriteria(row, known) ==
    IF ~row.criteria_passed THEN "not_applicable"
    ELSE IF NormUrl(ReadCell(row.yml_url)) \in known THEN "matched_existing_estimate"
    ELSE "new_estimate_candidate"

\* the comparison_status of a row: the default, then the two .loc assignments
ComparisonStatus(row, known) ==
    IF ~HasEstimateLink(row) THEN "not_applicable"
    ELSE IF NormUrl(ReadCell(row.yml_url)) \in known THEN "matched_existing_estimate"
    ELSE "new_estimate_candidate"

\* the yml_url column of the sheets estimate_scenarios.xlsx is given with: no
\* row; or the URL of the first document in upper case between blanks, an
\* empty cell and a URL of no document
EstimateSheets ==
    {<<>>,
     <<<<" ","H","T","T","P","S",":","/","/","L","E","A","R","N",".","M","I","C","R","O","S","O","F","T",".","C","O","M","/","E","N","-","U","S","/","A","Z","U","R","E","/","A","R","C","H","I","T","E","C","T","U","R","E","/","A","\t">>, <<>>,
       <<"h","t","t","p","s",":","/","/","l","e","a","r","n",".","m","i","c","r","o","s","o","f","t",".","c","o","m","/","e","n","-","u","s","/","a","z","u","r","e","/","a","r","c","h","i","t","e","c","t","u","r","e","/","o","t","h","e","r">>>>}

\* run_compare_only.py over a sheet with a header: the first sheet of
\* scan-results.xlsx is written back with the comparison_status column
Compare ==
    /\ pc = "built"
    /\ {"estimate_link", "yml_url"} \subseteq scan_results_xlsx.columns
    /\ \E est \in EstimateSheets :
          /\ est_df' = [exists |-> TRUE, yml_url |-> est]
          /\ scan_results_xlsx' =
                 [exists |-> TRUE,
                  columns |-> scan_results_xlsx.columns \cup {"comparison_status"},
                  rows |-> [k \in 1..Len(scan_results_xlsx.rows) |->
                               [c \in DOMAIN scan_results_xlsx.rows[k] \cup {"comparison_status"} |->
                                   IF c = "comparison_status"
                                   THEN ComparisonStatus(scan_results_xlsx.rows[k], Known(est))
                                   ELSE scan_results_xlsx.rows[k][c]]]]
    /\ pc' = "compared"
    /\ UNCHANGED <<corpus, disk, debug, yml_files, pos, results, counts, failures,
                   scan_results_json, scan_debug_json, fn_arg, fn_ret>>

\* run_compare_only.py over a sheet without the required columns:
\* "raise ValueError", before anything is written
CompareRaises ==
    /\ pc = "built"
    /\ ~({"estimate_link", "yml_url"} \subseteq scan_results_xlsx.columns)
    /\ pc' = "compare_raised"
    /\ UNCHANGED <<corpus, disk, debug, yml_files, pos, results, counts, failures,
                   outVars, fn_arg, fn_ret>>
(***************************************************************************)
(* Spec: a scan over a bounded corpus.                                     *)
(***************************************************************************)
RECURSIVE YmlDir(_)
\* the directory of the n-th YAML file of the corpus
YmlDir(n) == IF n = 1 THEN as_posix(DocsRoot) ELSE YmlDir(n - 1) \o <<"/","g">>

\* the path of the n-th YAML file: .yml and .yaml alternate
YmlPath(n) == YmlDir(n) \o (IF n % 2 = 1 THEN <<"/","a",".","y","m","l">> ELSE <<"/","a",".","y","a","m","l">>)

\* a YAML mapping without metadata
NoMeta == [title |-> Absent, description |-> Absent, author |-> Absent, ms_author |-> Absent]

\* a YAML mapping with the given content field
DictWith(is_str, content) ==
    [kind |-> "dict", content_is_str |-> is_str, content |-> content,
     meta |-> NoMeta, title |-> Absent, description |-> Absent,
     author |-> Absent, ms_author |-> Absent, azureCategories |-> [kind |-> "none"]]

\* the content of a YAML file that includes ./includes/foo.md
IncludeFoo == <<"[","!","I","N","C","L","U","D","E"," ","[","]","(",".","/","i","n","c","l","u","d","e","s","/","f","o","o",".","m","d",")","]">>

\* the content strings of the corpus: no directive, a directive, a directive
\* that leaves repo_root
Contents == {<<"N","o"," ","i","n","c","l","u","d","e"," ","h","e","r","e",".">>, IncludeFoo, <<"[","!","I","N","C","L","U","D","E"," ","[","]","(",".",".","/",".",".","/",".",".","/","o","u","t","s","i","d","e",".","m","d",")","]">>}

\* a mapping with metadata: the title under metadata, the author at the top level
DictWithMeta ==
    [DictWith(TRUE, IncludeFoo) EXCEPT !.meta = [NoMeta EXCEPT !.title = <<"H","u","b">>],
                                       !.title = <<"O","t","h","e","r">>, !.author = <<"a","n","n">>,
                                       !.azureCategories = [kind |-> "scalar", val |-> <<"w","e","b">>]]

\* what load_yaml can meet in a YAML file
YamlDatas ==
    {[kind |-> "raises"], DictWith(FALSE, <<>>), DictWithMeta}
    \cup {DictWith(TRUE, c) : c \in Contents}

\* an include file with the given text and front matter
MdFile(text, fm) == [kind |-> "file", text |-> text, fm |-> fm]

\* a line with an image directive, and a line with a cost-estimate link
ArchImageLine == <<":",":",":","i","m","a","g","e"," ","s","o","u","r","c","e","=","\"","m","/","a",".","s","v","g","\"",":",":",":">>
ExperienceLine == <<"S","e","e"," ","h","t","t","p","s",":","/","/","a","z","u","r","e",".","c","o","m","/","e","/","a","1",".">>

\* a line whose only link is the calculator address itself
RootCalcLine == <<"h","t","t","p","s",":","/","/","a","z","u","r","e",".","m","i","c","r","o","s","o","f","t",".","c","o","m","/","p","r","i","c","i","n","g","/","c","a","l","c","u","l","a","t","o","r","/">>

\* a file with front matter, a bare calculator link and a thumbnail image
ThumbFile ==
    MdFile(<<"-","-","-","\n","a","u","t","h","o","r",":"," ","b","o","b","\n","-","-","-","\n","h","t","t","p","s",":","/","/","a","z","u","r","e",".","m","i","c","r","o","s","o","f","t",".","c","o","m","/","p","r","i","c","i","n","g","/","c","a","l","c","u","l","a","t","o","r"," ","!","[","]","(","t","h","u","m","b","s","/","a","r","c","h",".","p","n","g",")">>,
           [author |-> <<"b","o","b">>, ms_author |-> Absent])

\* what the disk can hold at an include path
MdEntries ==
    {[kind |-> "dir"],
     MdFile(<<"N","o","t","h","i","n","g"," ","h","e","r","e",".">>, Absent),
     MdFile(ExperienceLine, Absent),
     MdFile(ArchImageLine, Absent),
     MdFile(ArchImageLine \o <<"\n">> \o RootCalcLine, Absent),
     ThumbFile}

\* what one YAML file and the files it refers to hold
Scenarios ==
    {[data |-> d, md |-> Missing, img |-> FALSE] : d \in YamlDatas \ {DictWith(TRUE, IncludeFoo)}}
    \cup {[data |-> DictWith(TRUE, IncludeFoo), md |-> m, img |-> FALSE] : m \in MdEntries}
    \cup {[data |-> DictWithMeta, md |-> MdFile(ArchImageLine \o <<"\n">> \o ExperienceLine, Absent), img |-> TRUE]}

\* the include file and the image that the n-th YAML file can refer to
IncludeTarget(n) == YmlDir(n) \o <<"/","i","n","c","l","u","d","e","s","/","f","o","o",".","m","d">>
ImageTarget(n) == YmlDir(n) \o <<"/","i","n","c","l","u","d","e","s","/","m","/","a",".","s","v","g">>

\* the files below repo_root, other than the YAML files, for a choice of scenarios
DiskOf(scen) ==
    LET n == Len(scen)
        mds == {k \in 1..n : scen[k].md.kind /= "missing"}
        imgs == {k \in 1..n : scen[k].img}
    IN [p \in {IncludeTarget(k) : k \in mds} \cup {ImageTarget(k) : k \in imgs} |->
           IF \E k \in mds : p = IncludeTarget(k)
           THEN scen[CHOOSE k \in mds : p = IncludeTarget(k)].md
           ELSE MdFile(<<>>, Absent)]

\* counts as scan() creates it
NewCounts(total) ==
    [yml_total |-> total, yml_parsed |-> 0, has_content |-> 0,
     has_include |-> 0, include_md_exists |-> 0, md_has_links_any |-> 0,
     md_has_arch_images_any |-> 0, matched |-> 0, failed |-> 0]

\* scan() is entered over a corpus of at most MaxFiles files
InitShort ==
    /\ pc = "scan"
    /\ \E n \in 0..MaxFiles : \E scen \in [1..n -> Scenarios] :
          /\ corpus = [p \in {YmlPath(k) : k \in 1..n} |-> scen[CHOOSE k \in 1..n : p = YmlPath(k)].data]
          /\ disk = DiskOf(scen)
    /\ debug \in BOOLEAN
    /\ yml_files = EnumerateYaml(DOMAIN corpus \cup DOMAIN disk)
    /\ pos = 0
    /\ results = <<>>
    /\ counts = NewCounts(Len(yml_files))
    /\ failures = <<>>
    /\ scan_results_json = NoFile
    /\ scan_debug_json = NoFile
    /\ scan_results_xlsx = NoFile
    /\ est_df = NoFile
    /\ fn_arg = <<>>
    /\ fn_ret = NotApplied

\* the decimal digits of k, four of them
FourDigits(k) ==
    LET Digit(d) == <<"0", "1", "2", "3", "4", "5", "6", "7", "8", "9">>[d + 1]
    IN <<Digit((k \div 1000) % 10), Digit((k \div 100) % 10), Digit((k \div 10) % 10), Digit(k % 10)>>

\* the k-th YAML file of a long corpus: docs/f0001.yml, docs/f0002.yml, ...;
\* the names have one length, so that sorted() lists them by number, and
\* all of them before docs/g/a.yaml
LongPath(k) == as_posix(DocsRoot) \o <<"/","f">> \o FourDigits(k) \o <<".","y","m","l">>

\* what the last file of a long corpus and the files it refers to hold: a
\* file that cannot be parsed, or a document that meets all criteria
LastScenarios == {s \in Scenarios : s.data.kind = "raises" \/ s.img}

\* the loop of scan() has gone through the first m files of a long corpus,
\* none of which holds a mapping (load_yaml returns a list for one, None
\* for the next), and is at the last file, docs/g/a.yaml; m is one or two
\* less than MaxFailures.  The records, the debug entries and the counters
\* are those the loop body gives for the m files.
InitLong ==
    /\ pc = "scan"
    /\ \E m \in {MaxFailures - 2, MaxFailures - 1} : \E last \in LastScenarios :
          /\ corpus = [p \in {LongPath(k) : k \in 1..m} \cup {YmlPath(2)} |->
                           IF p = YmlPath(2) THEN last.data
                           ELSE IF p[Len(p) - 4] \in {"0", "2", "4", "6", "8"} THEN [kind |-> "list"]
                           ELSE [kind |-> "raises"]]
          /\ disk = DiskOf(<<[data |-> last.data, md |-> Missing, img |-> FALSE], last>>)
          /\ yml_files = [k \in 1..(m + 1) |-> IF k <= m THEN LongPath(k) ELSE YmlPath(2)]
          /\ pos = m
          /\ debug \in BOOLEAN
          /\ results = [k \in 1..m |-> StageYaml(LongPath(k), NewCounts(m + 1)).rec]
          /\ counts = [NewCounts(m + 1) EXCEPT !.failed = m]
          /\ failures = IF debug THEN [k \in 1..m |-> StageYaml(LongPath(k), NewCounts(m + 1)).entry]
                        ELSE <<>>
    /\ scan_results_json = NoFile
    /\ scan_debug_json = NoFile
    /\ scan_results_xlsx = NoFile
    /\ est_df = NoFile
    /\ fn_arg = <<>>
    /\ fn_ret = NotApplied

Init == InitShort \/ InitLong

Next ==
    \/ FailYamlParse
    \/ FailMissingContent
    \/ FailNoInclude
    \/ FailUnresolvable
    \/ FailIncludeMissing
    \/ AbortOnRead
    \/ FailNoLinks
    \/ FailNoImages
    \/ Pass
    \/ Finish
    \/ WriteOutputs
    \/ BuildRows
    \/ Compare
    \/ CompareRaises

Spec == Init /\ [][Next]_vars


(***************************************************************************)
(* Properties of the records, the counters and the end of a scan.          *)
(***************************************************************************)
\* the seven values the loop body assigns to base['failure_reason'] before
\* a "continue", in the order of the tests
ReasonCodes ==
    <<"yaml_parse_failed", "missing_content_string", "no_include_directive",
      "include_md_unresolvable", "include_md_missing", "no_matching_links",
      "no_architecture_images">>

\* the set of the seven reason codes
ReasonCodeSet == {ReasonCodes[i] : i \in DOMAIN ReasonCodes}

\* C1: in every record emitted by scan(), after any sequence of documents,
\* criteria_passed is true if and only if failure_reason is the empty
\* string, and the failure_reason of a record that did not pass is one of
\* the seven stage reason codes.
C1_PassedIffNoReason ==
    \A k \in 1..Len(results) :
        /\ results[k].criteria_passed \in BOOLEAN
        /\ results[k].criteria_passed <=> results[k].failure_reason = ""
        /\ ~results[k].criteria_passed => results[k].failure_reason \in ReasonCodeSet

\* C1 witness: the scan has emitted a record that passed and a record that
\* did not
C1_Witness ==
    /\ \E k \in 1..Len(results) : results[k].criteria_passed
    /\ \E k \in 1..Len(results) : ~results[k].criteria_passed

\* the text of the include file of the YAML file yml
IncludeText(yml) ==
    DiskEntry(resolve_repo_rel(ParentDir(yml), IncludeRef(corpus[yml].content), RepoRoot)).text

\* the first of the seven stages, in the order Parsed, HasContent,
\* HasInclude, IncludeResolved, IncludeExists, LinksQualify, ImagesQualify,
\* whose precondition the YAML file yml does not meet (8 when it meets all)
FirstFailingStage(yml) ==
    IF ~IsDict(load_yaml(yml)) THEN 1
    ELSE IF ~corpus[yml].content_is_str THEN 2
    ELSE IF ~IncludeFound(corpus[yml].content) THEN 3
    ELSE IF resolve_repo_rel(ParentDir(yml), IncludeRef(corpus[yml].content), RepoRoot) = Absent THEN 4
    ELSE IF ~PathExists(resolve_repo_rel(ParentDir(yml), IncludeRef(corpus[yml].content), RepoRoot)) THEN 5
    ELSE IF ~categorize_links(IncludeText(yml)).has_any_qualifying_links THEN 6
    ELSE IF Len(find_architecture_images(IncludeText(yml))) = 0 THEN 7
    ELSE 8

\* C2: the failure_reason of an emitted record is the reason of the first
\* stage, in the order Parsed, HasContent, HasInclude, IncludeResolved,
\* IncludeExists, LinksQualify, ImagesQualify, whose precondition the
\* document does not meet, and a record passes only if the document meets
\* all seven.  Every record is the last one of the state its append leads
\* to, so the statement about the last record covers them all.
C2_FirstFailingStageIsRecorded ==
    Len(results) > 0 =>
        LET Agrees(rec, stage) ==
                /\ rec.criteria_passed <=> stage = 8
                /\ stage < 8 => rec.failure_reason = ReasonCodes[stage]
        IN Agrees(results[Len(results)], FirstFailingStage(yml_files[Len(results)]))

\* C2 witness: the record of a document whose include file has neither a
\* qualifying link nor an architecture image says no_matching_links
C2_Witness ==
    \E k \in 1..Len(results) :
        /\ results[k].failure_reason = "no_matching_links"
        /\ Len(find_architecture_images(IncludeText(yml_files[k]))) = 0

\* the link buckets of rec are empty
NoLinkFields(rec) ==
    /\ rec.azure_experience_links = <<>>
    /\ rec.calculator_root_links = <<>>
    /\ rec.calculator_shared_estimate_links = <<>>
    /\ rec.calculator_other_links = <<>>
    /\ rec.pricing_calculator_links = <<>>
    /\ rec.shared_estimate_links = <<>>
    /\ rec.all_matching_links = <<>>

\* the image fields of rec are at their defaults
NoImageFields(rec) ==
    /\ rec.architecture_image_heuristic = FALSE
    /\ rec.image_paths = <<>>
    /\ rec.image_download_urls = <<>>
    /\ rec.image_exists_in_repo = <<>>
    /\ rec.image_formats = <<>>
    /\ rec.svg_paths = <<>>
    /\ rec.svg_download_urls = <<>>
    /\ rec.svg_exists_in_repo = <<>>

\* the fields of rec that the stages after the stage with the given number
\* assign are at their defaults: the metadata is assigned once Parsed holds,
\* the include path and its URL once IncludeResolved holds (the failure at
\* IncludeResolved stores the unresolved reference in include_md_path), the
\* authors and the link buckets once IncludeExists holds, the image fields
\* once ImagesQualify holds
DefaultsFrom(rec, stage) ==
    /\ stage <= 1 => rec.title = Absent /\ rec.description = Absent /\ rec.azureCategories = <<>>
    /\ stage <= 3 => rec.include_md_path = Absent
    /\ stage <= 4 => rec.include_md_github_url = Absent
    /\ stage <= 5 => rec.md_author_github = Absent /\ rec.md_ms_author = Absent /\ NoLinkFields(rec)
    /\ stage <= 7 => NoImageFields(rec)

\* C3: a record that failed at a stage has every field assigned by a later
\* stage at its default: a record with include_md_missing has
\* criteria_passed false, all link buckets and all image fields empty, and
\* a record with no_matching_links or no_architecture_images has all image
\* fields (paths, download URLs, formats, existence flags, svg lists,
\* heuristic flag) at their defaults.
C3_LaterFieldsStayDefault ==
    \A k \in 1..Len(results) : \A stage \in DOMAIN ReasonCodes :
        results[k].failure_reason = ReasonCodes[stage] =>
            /\ ~results[k].criteria_passed
            /\ DefaultsFrom(results[k], stage)

\* C3 witness: the scan has emitted a record with include_md_missing and a
\* record with no_matching_links for an include file that holds an
\* architecture image
C3_Witness ==
    /\ \E k \in 1..Len(results) : results[k].failure_reason = "include_md_missing"
    /\ \E k \in 1..Len(results) :
          /\ results[k].failure_reason = "no_matching_links"
          /\ Len(find_architecture_images(IncludeText(yml_files[k]))) > 0

\* the scan has ended: scan() has returned, or an exception has left it
ScanEnded == pc \in {"done", "aborted"}

\* C4: a scan over N enumerated YAML files emits one record per file (N
\* records, each with a yml_path of its own), and at the end of the scan the
\* matched counter plus the failed counter equals the yml_total counter N.
C4_OneRecordPerFile ==
    ScanEnded =>
        /\ Len(results) = Len(yml_files)
        /\ \A j, k \in 1..Len(results) : j /= k => results[j].yml_path /= results[k].yml_path
        /\ counts.yml_total = Len(yml_files)
        /\ counts.matched + counts.failed = counts.yml_total

\* C4: a scan over as many files as the bound allows has been ended by the
\* exception of read_text, with fewer records than files
C4_Witness ==
    /\ pc = "aborted"
    /\ Len(yml_files) = MaxFiles
    /\ Len(results) < Len(yml_files)
    /\ counts.matched + counts.failed < counts.yml_total

\* C4, for the scans that return: the records are those of the files gone
\* through so far, in the order of the enumeration, each with a yml_path of
\* its own; the two counters add up to their number; and a scan that returns
\* has gone through every file.
C4_ScansThatReturn ==
    /\ Len(results) = pos
    /\ \A k \in 1..Len(results) : results[k].yml_path = yml_files[k]
    /\ \A j, k \in 1..Len(results) : j /= k => results[j].yml_path /= results[k].yml_path
    /\ counts.matched + counts.failed = pos
    /\ counts.yml_total = Len(yml_files)
    /\ pc = "done" => pos = Len(yml_files)

\* C5: no error raised while a document is evaluated ends the scan: a YAML
\* file whose loading raises gets a record with yaml_parse_failed, an
\* include path that exists and whose text cannot be read gets a record
\* with include_md_missing, and the scan goes on to the documents after it.
C5_NoErrorEndsTheScan ==
    /\ pc /= "aborted"
    /\ \A k \in 1..Len(results) :
          corpus[yml_files[k]].kind = "raises" => results[k].failure_reason = "yaml_parse_failed"

\* C5: the scan has gone past a YAML file whose loading raised, recorded as
\* yaml_parse_failed, and has then been ended by the exception of read_text
\* on an include path that exists
C5_Witness ==
    /\ pc = "aborted"
    /\ \E k \in 1..Len(results) :
          /\ corpus[yml_files[k]].kind = "raises"
          /\ results[k].failure_reason = "yaml_parse_failed"
    /\ PathExists(resolve_repo_rel(ParentDir(yml_files[pos + 1]),
                                   IncludeRef(corpus[yml_files[pos + 1]].content), RepoRoot))

\* the positions in results of the records that did not pass, in scan order
FailingPositions ==
    SelectSeq([k \in 1..Len(results) |-> k], LAMBDA k : ~results[k].criteria_passed)

\* C11: the failure sample of scan-debug.json is capped at 1000 entries: for
\* a scan with F records that did not pass, the sample has min(F, 1000)
\* entries, the i-th entry names the i-th such record (its yml_path) with
\* that record's failure_reason, and failures_total is F.
C11_FailureSampleIsCapped ==
    scan_debug_json.exists =>
        LET Sampled(failing, sample) ==
                /\ scan_debug_json.failures_total = Len(failing)
                /\ Len(sample) = (IF Len(failing) < 1000 THEN Len(failing) ELSE 1000)
                /\ \A i \in 1..Len(sample) :
                      /\ sample[i].yml_path = results[failing[i]].yml_path
                      /\ sample[i].reason = results[failing[i]].failure_reason
        IN Sampled(FailingPositions, scan_debug_json.failures_sample)

\* C11 witness: scan-debug.json has been written after a scan with more
\* than 1000 records that did not pass, and its sample has 1000 entries
C11_Witness ==
    /\ scan_debug_json.exists
    /\ Len(FailingPositions) > 1000
    /\ scan_debug_json.failures_total = Len(FailingPositions)
    /\ Len(scan_debug_json.failures_sample) = 1000

\* the stage at which the record rec left the loop body: the position of
\* its failure_reason among the reason codes, 8 for a record that passed
StageOf(rec) ==
    IF rec.criteria_passed THEN 8
    ELSE CHOOSE stage \in DOMAIN ReasonCodes : ReasonCodes[stage] = rec.failure_reason

\* the number of records emitted so far that got past the stage with the given number
Past(stage) == Cardinality({k \in 1..Len(results) : StageOf(results[k]) > stage})

\* the number of records emitted so far that failed at LinksQualify for an
\* include file that holds an architecture image
FailedLinksWithImage ==
    Cardinality({k \in 1..Len(results) :
                    /\ results[k].failure_reason = "no_matching_links"
                    /\ Len(find_architecture_images(IncludeText(yml_files[k]))) > 0})

\* C12, as the source has it: at every point of the scan each counter is
\* the number of documents gone through that reached its stage (a document
\* whose read_text raised has been counted up to include_md_exists and has
\* no record), with one exception: md_has_arch_images_any counts every
\* document whose include file was read and holds an architecture image,
\* whether or not it has a qualifying link.  So yml_parsed >= has_content
\* >= has_include >= include_md_exists, include_md_exists is at least
\* md_has_links_any and at least md_has_arch_images_any, and each of these
\* two is at least matched.
C12_CountersFollowStages ==
    LET Counted(raised) ==
            /\ counts.yml_parsed = Past(1) + raised
            /\ counts.has_content = Past(2) + raised
            /\ counts.has_include = Past(3) + raised
            /\ counts.include_md_exists = Past(5) + raised
            /\ counts.md_has_links_any = Past(6)
            /\ counts.md_has_arch_images_any = Past(7) + FailedLinksWithImage
            /\ counts.matched = Past(7)
            /\ counts.failed = Len(results) - Past(7)
    IN /\ Counted(IF pc = "aborted" THEN 1 ELSE 0)
       /\ counts.yml_parsed >= counts.has_content
       /\ counts.has_content >= counts.has_include
       /\ counts.has_include >= counts.include_md_exists
       /\ counts.include_md_exists >= counts.md_has_links_any
       /\ counts.include_md_exists >= counts.md_has_arch_images_any
       /\ counts.md_has_links_any >= counts.matched
       /\ counts.md_has_arch_images_any >= counts.matched

\* C12 witness: the scan has gone through a document that failed at
\* LinksQualify and whose include file holds an architecture image, and
\* md_has_arch_images_any is above md_has_links_any
C12_Witness ==
    /\ FailedLinksWithImage > 0
    /\ counts.md_has_arch_images_any > counts.md_has_links_any

\* C12 as stated: at every point of the scan yml_parsed >= has_content >=
\* has_include >= include_md_exists >= md_has_links_any >=
\* md_has_arch_images_any >= matched, the image counter being incremented
\* only for documents that passed LinksQualify.
C12_Original_ImagesCountedAfterLinks ==
    /\ counts.yml_parsed >= counts.has_content
    /\ counts.has_content >= counts.has_include
    /\ counts.has_include >= counts.include_md_exists
    /\ counts.include_md_exists >= counts.md_has_links_any
    /\ counts.md_has_links_any >= counts.md_has_arch_images_any
    /\ counts.md_has_arch_images_any >= counts.matched

\* the three values of the comparison_status column
Statuses == {"not_applicable", "matched_existing_estimate", "new_estimate_candidate"}

\* the rows of the first sheet of scan-results.xlsx once run_compare_only.py has ended
ComparedRows == IF pc = "compared" THEN scan_results_xlsx.rows ELSE <<>>

\* the known-URL set: the yml_url cells of the estimates sheet, trimmed and
\* in lower case (an empty cell gives the string nan)
KnownUrls ==
    IF pc = "compared"
    THEN {IF est_df.yml_url[k] = <<>> THEN <<"n","a","n">> ELSE Lower(Strip(est_df.yml_url[k])) :
             k \in 1..Len(est_df.yml_url)}
    ELSE {}

\* C13: the comparison gives every row of the scan exactly one of the three
\* statuses; a row is matched_existing_estimate or new_estimate_candidate
\* only if its document passed the criteria; a row of a document that passed
\* is matched_existing_estimate if and only if its yml_url, trimmed and in
\* lower case, is in the known-URL set, and new_estimate_candidate
\* otherwise; every other row is not_applicable.
C13_OnlyPassedRowsAreReconciled ==
    /\ pc = "compared" => Len(scan_results_xlsx.rows) = Len(results)
    /\ \A k \in 1..Len(ComparedRows) :
          LET Reconciled(row, known_url) ==
                  /\ row.comparison_status \in Statuses
                  /\ row.comparison_status /= "not_applicable" => row.criteria_passed
                  /\ row.criteria_passed =>
                        row.comparison_status = (IF known_url THEN "matched_existing_estimate"
                                                 ELSE "new_estimate_candidate")
                  /\ ~row.criteria_passed => row.comparison_status = "not_applicable"
          IN Reconciled(ComparedRows[k], Lower(Strip(ComparedRows[k].yml_url)) \in KnownUrls)

\* C13: the comparison has ended with a row of a document that did not pass
\* (it has an estimate link and no architecture image) classified as
\* new_estimate_candidate, and a row of a document that passed (its only
\* link is the calculator address) classified as not_applicable
C13_Witness ==
    /\ \E k \in 1..Len(ComparedRows) :
          /\ ~ComparedRows[k].criteria_passed
          /\ ComparedRows[k].failure_reason = "no_architecture_images"
          /\ ComparedRows[k].comparison_status = "new_estimate_candidate"
    /\ \E k \in 1..Len(ComparedRows) :
          /\ ComparedRows[k].criteria_passed
          /\ ComparedRows[k].comparison_status = "not_applicable"

\* C13, by the estimate_link column: the comparison keeps the rows of the
\* scan, one per record and in their order; a row is not_applicable if and
\* only if its estimate_link is empty, whether or not its document passed;
\* a row with an estimate_link is matched_existing_estimate if its yml_url,
\* trimmed and in lower case, is in the known-URL set, and
\* new_estimate_candidate otherwise.
C13_StatusFollowsEstimateLink ==
    /\ pc = "compared" => Len(scan_results_xlsx.rows) = Len(results)
    /\ \A k \in 1..Len(ComparedRows) :
          LET Reconciled(row, known_url) ==
                  /\ row.yml_path = results[k].yml_path
                  /\ row.criteria_passed = results[k].criteria_passed
                  /\ row.comparison_status \in Statuses
                  /\ row.comparison_status = "not_applicable" <=> row.estimate_link = <<>>
                  /\ row.estimate_link /= <<>> =>
                        row.comparison_status = (IF known_url THEN "matched_existing_estimate"
                                                 ELSE "new_estimate_candidate")
          IN Reconciled(ComparedRows[k], Lower(Strip(ComparedRows[k].yml_url)) \in KnownUrls)

\* u has one of the three shapes pick_estimate_link accepts
EstimateShape(u) == AZURE_EXPERIENCE_RE(u) \/ SHARED_ESTIMATE_RE(u) \/ SERVICE_RE(u)

\* the links of all buckets of rec
LinksOf(rec) ==
    ToSet(rec.azure_experience_links) \cup ToSet(rec.calculator_root_links)
    \cup ToSet(rec.calculator_shared_estimate_links) \cup ToSet(rec.calculator_other_links)
    \cup ToSet(rec.pricing_calculator_links) \cup ToSet(rec.shared_estimate_links)
    \cup ToSet(rec.all_matching_links)

\* C14, as the source has it: every record that passed has at least one
\* accepted image and at least one link in its buckets, which may be a link
\* of the two diagnostic calculator buckets only (the calculator address
\* itself, or a calculator URL of another shape); pick_estimate_link over
\* the record returns a URL of its buckets of experience, shared-estimate or
\* service shape if the buckets hold one, and the empty string if they hold
\* none.
C14_PassedHasImageAndSomeLink ==
    \A k \in 1..Len(results) :
        results[k].criteria_passed =>
            LET Picked(rec, link) ==
                    /\ Len(rec.image_paths) > 0
                    /\ rec.architecture_image_heuristic
                    /\ Len(rec.all_matching_links) > 0
                    /\ link /= <<>> => link \in LinksOf(rec) /\ EstimateShape(link)
                    /\ link = <<>> => \A u \in LinksOf(rec) : ~EstimateShape(u)
            IN Picked(results[k], pick_estimate_link(results[k]))

\* C14 witness: a record that passed whose only link is the calculator
\* address, for which pick_estimate_link returns the empty string, and a
\* record that passed for which it returns an experience link
C14_Witness ==
    /\ \E k \in 1..Len(results) :
          /\ results[k].criteria_passed
          /\ Len(results[k].calculator_root_links) = 1
          /\ pick_estimate_link(results[k]) = <<>>
    /\ \E k \in 1..Len(results) :
          /\ results[k].criteria_passed
          /\ AZURE_EXPERIENCE_RE(pick_estimate_link(results[k]))

\* C14 as stated: every record that passed has at least one accepted image
\* and at least one link of experience, shared-estimate or service shape,
\* and pick_estimate_link over the record returns a non-empty URL.
C14_Original_PassedHasEstimateLink ==
    \A k \in 1..Len(results) :
        results[k].criteria_passed =>
            /\ Len(results[k].image_paths) > 0
            /\ \E u \in LinksOf(results[k]) : EstimateShape(u)
            /\ pick_estimate_link(results[k]) /= <<>>
(***************************************************************************)
(* SpecResolve: resolve_repo_rel applied to bounded inputs.                *)
(***************************************************************************)
RECURSIVE Nested(_)
\* the directory of a document n levels below the corpus root
Nested(n) == IF n = 0 THEN RepoRoot \o DocsRoot ELSE Append(Nested(n - 1), <<"a">>)

BaseDirs == {Nested(n) : n \in 0..MaxDepth}

RefPieces == {<<".",".","/">>, <<".",".","/",".",".","/",".",".","/","e","t","c","/","p","a","s","s","w","d">>, <<".","/">>, <<"/">>, <<"a",".","m","d">>, <<"s","u","b","/">>, <<"h","t","t","p","s",":","/","/">>, <<" ">>, <<"(">>, <<"\"">>}

RECURSIVE PieceSeqs(_, _)
\* the sequences of at most n pieces
PieceSeqs(P, n) ==
    IF n = 0 THEN {<<>>}
    ELSE LET shorter == PieceSeqs(P, n - 1)
         IN shorter \cup {Append(s, x) : s \in shorter, x \in P}

Refs == {Concat(s) : s \in PieceSeqs(RefPieces, MaxRefPieces)}

InitResolve ==
    /\ pc = "resolve"
    /\ ScanIdle
    /\ fn_arg \in [base_dir : BaseDirs, ref : Refs]
    /\ fn_ret = NotApplied

ApplyResolve ==
    /\ pc = "resolve"
    /\ ~fn_ret.done
    /\ fn_ret' = [done |-> TRUE, val |-> resolve_repo_rel(fn_arg.base_dir, fn_arg.ref, RepoRoot)]
    /\ UNCHANGED <<pc, scanVars, fn_arg>>

NextResolve == ApplyResolve

SpecResolve == InitResolve /\ [][NextResolve]_vars

\* the number of directories between repo_root and base_dir
DepthBelowRoot(base_dir) == Len(base_dir) - Len(RepoRoot)

EscapeRef == <<".",".","/",".",".","/",".",".","/","e","t","c","/","p","a","s","s","w","d">>

\* the string is a forward-slash path relative to the root that stays below it
IsRelativeUnderRoot(r) ==
    /\ Len(r) > 0
    /\ r[1] /= "/"
    /\ \A k \in 1..Len(r) : r[k] /= "\\"
    /\ \/ r = <<".">>
       \/ \A k \in 1..Len(SplitOn(r, "/")) :
              SplitOn(r, "/")[k] \notin {<<>>, <<".">>, <<".",".">>}

\* C10, as the code has it: resolve_repo_rel returns either nothing or a forward-slash
\* path relative to repo_root that stays below repo_root; a reference with a
\* scheme:// prefix returns nothing; ../../../etc/passwd returns nothing exactly
\* when the document's directory is fewer than three levels below repo_root,
\* and otherwise returns the path below repo_root that it names.
C10_ResolveStaysUnderRepoRoot ==
    (pc = "resolve" /\ fn_ret.done) =>
        /\ fn_ret.val = Absent \/ IsRelativeUnderRoot(fn_ret.val)
        /\ HasScheme(clean_ref(fn_arg.ref)) => fn_ret.val = Absent
        /\ fn_arg.ref = EscapeRef =>
              IF DepthBelowRoot(fn_arg.base_dir) < 3
              THEN fn_ret.val = Absent
              ELSE fn_ret.val = JoinSlash(SubSeq(fn_arg.base_dir, Len(RepoRoot) + 1, Len(fn_arg.base_dir) - 3)
                                          \o <<<<"e","t","c">>, <<"p","a","s","s","w","d">>>>)

\* C10 witness: the escaping reference resolved from docs/a/a, three levels below repo_root
C10_Witness ==
    /\ pc = "resolve"
    /\ fn_ret.done
    /\ fn_arg.ref = EscapeRef
    /\ fn_arg.base_dir = Nested(2)
    /\ fn_ret.val = <<"e","t","c","/","p","a","s","s","w","d">>

\* C10 as originally stated: ../../../etc/passwd resolved against any document
\* below the corpus root returns nothing
C10_Original_EscapeRefAlwaysAbsent ==
    (pc = "resolve" /\ fn_ret.done /\ fn_arg.ref = EscapeRef) => fn_ret.val = Absent

(***************************************************************************)
(* SpecLinks: categorize_links, then pick_estimate_link, applied to        *)
(* bounded document texts.                                                 *)
(***************************************************************************)
LinkPieces == {<<" ","h","t","t","p","s",":","/","/","a","z","u","r","e",".","c","o","m","/","e","/","b">>, <<" ","h","t","t","p","s",":","/","/","a","z","u","r","e",".","c","o","m","/","e","/","a">>, <<" ","H","T","T","P","S",":","/","/","A","Z","U","R","E",".","C","O","M","/","E","/","Z">>,
               <<" ","h","t","t","p","s",":","/","/","a","z","u","r","e",".","m","i","c","r","o","s","o","f","t",".","c","o","m","/","p","r","i","c","i","n","g","/","c","a","l","c","u","l","a","t","o","r">>,
               <<" ","h","t","t","p",":","/","/","a","z","u","r","e",".","m","i","c","r","o","s","o","f","t",".","c","o","m","/","e","n","-","u","s","/","p","r","i","c","i","n","g","/","c","a","l","c","u","l","a","t","o","r","/">>,
               <<"?","s","e","r","v","i","c","e","=","v","m">>, <<"?","s","h","a","r","e","d","-","e","s","t","i","m","a","t","e","=","x","1">>, <<"#","t","o","p">>, <<".">>, <<")">>, <<" ","s","e","e">>}

LinkTexts == {Concat(s) : s \in PieceSeqs(LinkPieces, MaxLinkPieces)}

InitLinks ==
    /\ pc = "links"
    /\ ScanIdle
    /\ fn_arg \in LinkTexts
    /\ fn_ret = NotApplied

ApplyCategorize ==
    /\ pc = "links"
    /\ ~fn_ret.done
    /\ fn_ret' = [done |-> TRUE, picked |-> FALSE, val |-> categorize_links(fn_arg), link |-> <<>>]
    /\ UNCHANGED <<pc, scanVars, fn_arg>>

ApplyPick ==
    /\ pc = "links"
    /\ fn_ret.done
    /\ ~fn_ret.picked
    /\ fn_ret' = [fn_ret EXCEPT !.picked = TRUE, !.link = pick_estimate_link(fn_ret.val)]
    /\ UNCHANGED <<pc, scanVars, fn_arg>>

NextLinks == ApplyCategorize \/ ApplyPick

SpecLinks == InitLinks /\ [][NextLinks]_vars

Categorized == pc = "links" /\ fn_ret.done
Picked == pc = "links" /\ fn_ret.done /\ fn_ret.picked

\* the buckets of the Link Classifier
BucketsOf(info) ==
    <<info.azure_experience_links, info.calculator_root_links,
      info.calculator_shared_estimate_links, info.calculator_other_links,
      info.shared_estimate_links, info.pricing_calculator_links, info.all_matching_links>>

NoDuplicates(seq) == \A i, j \in 1..Len(seq) : i /= j => seq[i] /= seq[j]

\* the position at which u first occurs in text (Len(text) + 1 when it does not)
FirstPos(text, u) ==
    LET at == {i \in 1..Len(text) : MatchAt(text, i, u)}
    IN IF at = {} THEN Len(text) + 1 ELSE Min(at)

InFirstSeenOrder(text, seq) ==
    \A i, j \in 1..Len(seq) : i < j => FirstPos(text, seq[i]) <= FirstPos(text, seq[j])

Ascending(seq) == \A i \in 1..(Len(seq) - 1) : StrLess(seq[i], seq[i + 1])

\* C6: pick_estimate_link over the buckets of a record returns the first
\* experience-shape URL of the flattened, de-duplicated candidates if there is
\* one, else the first shared-estimate-shape URL, else the first service-shape
\* URL, else the empty string; so a text with a service= link and an
\* azure.com/e/ link selects an experience link, and a text whose only link is
\* the bare calculator root has it in calculator_root_links and selects nothing.
C6_PickPriority ==
    Picked =>
        LET ordered == OrderedCandidates(fn_ret.val)
            idx(P(_)) == {k \in 1..Len(ordered) : P(ordered[k])}
            info == fn_ret.val
        IN /\ IF idx(AZURE_EXPERIENCE_RE) /= {} THEN fn_ret.link = ordered[Min(idx(AZURE_EXPERIENCE_RE))]
              ELSE IF idx(SHARED_ESTIMATE_RE) /= {} THEN fn_ret.link = ordered[Min(idx(SHARED_ESTIMATE_RE))]
              ELSE IF idx(SERVICE_RE) /= {} THEN fn_ret.link = ordered[Min(idx(SERVICE_RE))]
              ELSE fn_ret.link = <<>>
           /\ (/\ Len(info.azure_experience_links) > 0
               /\ \E k \in 1..Len(info.pricing_calculator_links) : SERVICE_RE(info.pricing_calculator_links[k]))
              => /\ AZURE_EXPERIENCE_RE(fn_ret.link)
                 /\ fn_ret.link \in ToSet(info.azure_experience_links)
           /\ (/\ Len(info.all_matching_links) = 1
               /\ IsCalcRoot(info.all_matching_links[1]))
              => /\ info.calculator_root_links = <<RStripPunct(info.all_matching_links[1])>>
                 /\ fn_ret.link = <<>>

\* C6 witness: a text with an experience link and a service= link, the experience link picked
C6_Witness ==
    /\ Picked
    /\ Len(fn_ret.val.azure_experience_links) > 0
    /\ \E k \in 1..Len(fn_ret.val.calculator_other_links) : SERVICE_RE(fn_ret.val.calculator_other_links[k])
    /\ AZURE_EXPERIENCE_RE(fn_ret.link)

\* C7, as the code has it: every bucket of categorize_links is free of duplicates and
\* lists its URLs in ascending code-point order (sorted), not in the order of
\* first occurrence; shared_estimate_links is the sorted union of the
\* experience links and the calculator shared-estimate links.
C7_BucketsSortedNoDuplicates ==
    Categorized =>
        /\ \A b \in 1..7 : NoDuplicates(BucketsOf(fn_ret.val)[b]) /\ Ascending(BucketsOf(fn_ret.val)[b])
        /\ ToSet(fn_ret.val.shared_estimate_links)
              = ToSet(fn_ret.val.azure_experience_links) \cup ToSet(fn_ret.val.calculator_shared_estimate_links)

\* C7 witness: two experience links that occur in the text in descending order
C7_Witness ==
    /\ Categorized
    /\ Len(fn_ret.val.azure_experience_links) = 2
    /\ FirstPos(fn_arg, fn_ret.val.azure_experience_links[1]) > FirstPos(fn_arg, fn_ret.val.azure_experience_links[2])

\* C7 as originally stated: every bucket is free of duplicates and in the order
\* of first occurrence in the text, and shared_estimate_links is the experience
\* links followed by the calculator shared-estimate links
C7_Original_FirstSeenOrder ==
    Categorized =>
        /\ \A b \in 1..7 : NoDuplicates(BucketsOf(fn_ret.val)[b]) /\ InFirstSeenOrder(fn_arg, BucketsOf(fn_ret.val)[b])
        /\ fn_ret.val.shared_estimate_links
              = fn_ret.val.azure_experience_links \o fn_ret.val.calculator_shared_estimate_links

\* the URL has a query / a fragment / a query that contains shared-estimate=
HasQuery(u) == Contains(u, <<"?">>)
HasFragment(u) == Contains(u, <<"#">>)
QueryHasSharedEstimate(u) ==
    \E q \in 1..Len(u) : u[q] = "?" /\ ContainsCI(From(u, q + 1), <<"s","h","a","r","e","d","-","e","s","t","i","m","a","t","e","=">>)

\* c is the calculator address itself, with or without a final "/", and nothing after it
IsBareCalculator(c) ==
    LET e == CalcPrefixEnd(c, 1)
    IN e > 0 /\ (e = Len(c) + 1 \/ (e = Len(c) /\ c[e] = "/"))

\* the number of the three calculator buckets that hold the URL u of the text
CalcBucketsHolding(info, u) ==
    (IF u \in ToSet(info.calculator_shared_estimate_links) THEN 1 ELSE 0)
    + (IF RStripPunct(u) \in ToSet(info.calculator_root_links) /\ IsCalcRoot(u) THEN 1 ELSE 0)
    + (IF u \in ToSet(info.calculator_other_links) THEN 1 ELSE 0)

\* C8, as the code has it: every pricing-calculator URL of the text is placed in
\* exactly one of the buckets shared-estimate (the URL contains
\* shared-estimate=), root (the URL, its trailing ).,; removed, is the bare
\* calculator address with no query and no fragment; that trimmed form is what
\* is stored) or other (every remaining URL: a query without shared-estimate=,
\* but also a fragment or a longer path with no query at all); no URL string
\* is in both calculator_root_links and calculator_other_links.
C8_CalculatorPartition ==
    Categorized =>
        LET info == fn_ret.val
        IN /\ \A k \in 1..Len(info.pricing_calculator_links) :
                LET u == info.pricing_calculator_links[k]
                IN /\ CalcBucketsHolding(info, u) = 1
                   /\ u \in ToSet(info.calculator_shared_estimate_links) <=> ContainsCI(u, <<"s","h","a","r","e","d","-","e","s","t","i","m","a","t","e","=">>)
                   /\ RStripPunct(u) \in ToSet(info.calculator_root_links) /\ IsCalcRoot(u)
                        <=> IsBareCalculator(RStripPunct(u))
                   /\ u \in ToSet(info.calculator_other_links) /\ HasQuery(u) => ~QueryHasSharedEstimate(u)
           /\ ToSet(info.calculator_root_links) \cap ToSet(info.calculator_other_links) = {}

\* C8 witness: a bare calculator link in the root bucket next to a calculator
\* link with a fragment and no query in the other bucket
C8_Witness ==
    /\ Categorized
    /\ Len(fn_ret.val.calculator_root_links) > 0
    /\ \E k \in 1..Len(fn_ret.val.calculator_other_links) :
          ~HasQuery(fn_ret.val.calculator_other_links[k]) /\ HasFragment(fn_ret.val.calculator_other_links[k])

\* C8 as originally stated: each calculator URL is in exactly one bucket, the
\* shared-estimate bucket when its query contains shared-estimate=, the root
\* bucket when it has no query and no fragment, the other bucket when it has a
\* query without shared-estimate=; root and other share no URL
C8_Original_OtherHasQuery ==
    Categorized =>
        LET info == fn_ret.val
        IN /\ \A k \in 1..Len(info.pricing_calculator_links) :
                LET u == info.pricing_calculator_links[k]
                IN /\ CalcBucketsHolding(info, u) = 1
                   /\ u \in ToSet(info.calculator_shared_estimate_links) <=> QueryHasSharedEstimate(u)
                   /\ RStripPunct(u) \in ToSet(info.calculator_root_links) /\ IsCalcRoot(u)
                        <=> ~HasQuery(u) /\ ~HasFragment(u)
                   /\ u \in ToSet(info.calculator_other_links) <=> HasQuery(u) /\ ~QueryHasSharedEstimate(u)
           /\ ToSet(info.calculator_root_links) \cap ToSet(info.calculator_other_links) = {}

(***************************************************************************)
(* SpecImages: find_architecture_images applied to bounded document texts. *)
(***************************************************************************)
ImagePieces == {<<"!","[","x","]","(","t","h","u","m","b","s","/","a","r","c","h","i","t","e","c","t","u","r","e",".","p","n","g",")">>, <<":",":",":","i","m","a","g","e"," ","s","o","u","r","c","e","=","\"","m","e","d","i","a","/","t","h","u","m","b","n","a","i","l",".","s","v","g","\"",":",":",":">>,
                <<"!","[","d","]","[","a","r","c","h","]">>, <<"!","[","d","]","[","D","i","a","g","r","a","m","]">>, <<"[","d","i","a","g","r","a","m","]",":"," ","m","e","d","i","a","/","f","l","o","w",".","p","n","g">>, <<"[","a","r","c","h","]",":"," ",".","/","i","c","o","n","s","/","a","r","c","h",".","p","n","g">>,
                <<"\n">>, <<" ","a","r","c","h","i","t","e","c","t","u","r","e"," ">>, <<"<","i","m","g"," ","s","r","c","=","\"","m","e","d","i","a","/","s","o","c","i","a","l","_","i","m","a","g","e",".","p","n","g","\"",">">>, <<"!","[","x","]","(","m","e","d","i","a","/","a","r","c","h",".","p","n","g",")">>,
                <<"<","i","m","g"," ","a","l","t","=","\"","d","i","a","g","r","a","m","\""," ","s","r","c","=","\"","m","e","d","i","a","/","T","h","u","m","b","s","/","d","e","s","i","g","n",".","P","N","G","\"",">">>}

ImageTexts == {Concat(s) : s \in PieceSeqs(ImagePieces, MaxImagePieces)}

InitImages ==
    /\ pc = "images"
    /\ ScanIdle
    /\ fn_arg \in ImageTexts
    /\ fn_ret = NotApplied

ApplyFindImages ==
    /\ pc = "images"
    /\ ~fn_ret.done
    /\ fn_ret' = [done |-> TRUE, val |-> find_architecture_images(fn_arg)]
    /\ UNCHANGED <<pc, scanVars, fn_arg>>

NextImages == ApplyFindImages

SpecImages == InitImages /\ [][NextImages]_vars

\* the string follows a thumbnail/icon/social-image convention: a thumbs/
\* directory segment, "thumbnail", "social_image" or an /icons/ segment,
\* whatever the case of the letters
ThumbConvention(s) ==
    \/ \E i \in 1..Len(s) : MatchAtCI(s, i, <<"t","h","u","m","b","s","/">>) /\ (i = 1 \/ ~IsWord(s[i - 1]))
    \/ ContainsCI(s, <<"t","h","u","m","b","n","a","i","l">>)
    \/ ContainsCI(s, <<"s","o","c","i","a","l","_","i","m","a","g","e">>)
    \/ ContainsCI(s, <<"/","i","c","o","n","s","/">>)

\* C9: find_architecture_images returns no image whose path or context line
\* follows a thumbnail/icon/social-image convention, whatever other signal
\* (an "architecture" filename, the :::image marker, a diagram reference key)
\* the candidate carries.
C9_NoThumbnailReturned ==
    (pc = "images" /\ fn_ret.done) =>
        \A k \in 1..Len(fn_ret.val) :
            ~ThumbConvention(fn_ret.val[k].path) /\ ~ThumbConvention(fn_ret.val[k].line)

\* C9 witness: a text with a thumbs/ image named "architecture" next to an
\* accepted image; only the latter is returned
C9_Witness ==
    /\ pc = "images"
    /\ fn_ret.done
    /\ Contains(fn_arg, <<"t","h","u","m","b","s","/","a","r","c","h","i","t","e","c","t","u","r","e",".","p","n","g">>)
    /\ Len(fn_ret.val) > 0

====
